---- MODULE Spec2Model ----
(***************************************************************************)
(* reqifio: the command / undo-redo engine (src/src/reqifio/command.py)    *)
(* over the simplified document model, the SQLite adapter                  *)
(* (sqlite_adapter.py), the CSV adapter (csv_adapter.py) and the markup    *)
(* codec (reqif_writer.py, reqif_parser.py).                               *)
(*                                                                         *)
(* Python objects are modelled with their identity where the code shares   *)
(* them: Requirement objects live in `heap` and are named by reference,    *)
(* hierarchy nodes are named by their hier_id (one object per id), command *)
(* objects carry a creation number `cid`.                                  *)
(***************************************************************************)
EXTENDS Integers, Sequences, FiniteSets, TLC

\* ------------------------------------------------------------------ bounds
\* Command objects a behaviour constructs and hands to execute_command.
MaxCmds == 2
\* The same, for the behaviours that use MoveNodeCommand alone.
MaxMoves == 3
\* SQLiteAdapter.write calls of a behaviour on one database.
MaxWrites == 2

\* ------------------------------------------------------------ value domains
None == "None"
Free == [req_id |-> "None", title |-> "None", description |-> "None"]
RecursionError == "RecursionError"

ReqIds == {"R1", "R2"}
Titles == {"t0", "t1"}
Descriptions == {"d0", "d1"}
NodeIds == {"H1", "H2", "H3"}
AbsentNodeId == "HX"
RelationIds == {"REL1", "REL2"}
RelationTypes == {"refines", "child-of"}

HeapSize == Cardinality(ReqIds) + MaxCmds + 1
Refs == 1..HeapSize

VARIABLES
    requirements,      \* doc.requirements: sequence of references into heap
    heap,              \* Requirement objects: [req_id, title, description] or Free
    spec_hierarchies,  \* doc.spec_hierarchies: the root list (node ids)
    children,          \* node.children of every SpecHierarchy object
    spec_relations,    \* doc.spec_relations: sequence of SpecRelation values
    undo_stack,        \* CommandManager._undo_stack
    redo_stack,        \* CommandManager._redo_stack
    nextCid,           \* number of the next command object
    last,              \* history: the last CommandManager call and its outcome
    abandoned,         \* history: cids dropped from the redo stack by execute_command
    db,                \* the SQLite database file at db_path: its tables' rows
    loaded,            \* what the last SQLiteAdapter.read() returned
    sql_last,          \* history: the last SQLiteAdapter call and its outcome
    writes,            \* number of write() calls so far
    folder,            \* the CSV folder: its files and their rows
    csv_loaded,        \* what the last CSVAdapter.read() returned
    csv_last,          \* history: the last CSVAdapter call and its outcome
    csv_writes,        \* number of CSVAdapter.write() calls so far
    xml_file,          \* the ReqIF file: its element tree, NoElement while there is none
    xml_model,         \* what the last successful ReqIFParser.parse() returned
    xml_last           \* history: the last markup codec call and its outcome

cmdVars == <<requirements, heap, spec_hierarchies, children, spec_relations,
             undo_stack, redo_stack, nextCid, last, abandoned>>

sqlVars == <<db, loaded, sql_last, writes>>

csvVars == <<folder, csv_loaded, csv_last, csv_writes>>

xmlVars == <<xml_file, xml_model, xml_last>>

vars == <<cmdVars, sqlVars, csvVars, xmlVars>>

\* ---------------------------------------------------------------- helpers
Range(s) == {s[i] : i \in 1..Len(s)}

Last(s) == s[Len(s)]

Front(s) == SubSeq(s, 1, Len(s) - 1)

Min(S) == CHOOSE x \in S : \A y \in S : x <= y

\* [x for x in s if x != v]
Without(s, v) == SelectSeq(s, LAMBDA x : x # v)

\* The document as one value: what a command's execute/undo reads and writes.
Doc ==
    [requirements |-> requirements, heap |-> heap,
     spec_hierarchies |-> spec_hierarchies, children |-> children,
     spec_relations |-> spec_relations]

\* The outcome of a call: ok = FALSE when it raised; doc and cmd as the call
\* left them (a raise keeps every assignment made before it).
Outcome(ok, d, c) == [ok |-> ok, doc |-> d, cmd |-> c]

\* --------------------------------------------------------- search_hierarchy
\* Depth-first, pre-order; returns the first node whose hier_id is node_id
\* and the parent it was reached through.  `depth` is the recursion depth
\* left: Python's recursion limit ends a search that runs into a cycle.
RECURSIVE search_hierarchy(_, _, _, _, _)
search_hierarchy(ch, hierarchy_list, node_id, parent, depth) ==
    IF hierarchy_list = <<>> THEN [node |-> None, parent |-> None]
    ELSE LET node == Head(hierarchy_list)
         IN IF node = node_id THEN [node |-> node, parent |-> parent]
            ELSE LET sub == IF depth = 0
                            THEN [node |-> RecursionError, parent |-> None]
                            ELSE search_hierarchy(ch, ch[node], node_id, node, depth - 1)
                 IN IF sub.node # None THEN sub
                    ELSE search_hierarchy(ch, Tail(hierarchy_list), node_id, parent, depth)

SearchDepth == Cardinality(NodeIds) + 1

Search(d, node_id) ==
    search_hierarchy(d.children, d.spec_hierarchies, node_id, None, SearchDepth)

\* ---------------------------------------------------------- MoveNodeCommand
\* Detach: the node leaves its old parent's children list or the root list.
MoveDetach(d, old_parent, node_id) ==
    IF old_parent # None
    THEN [d EXCEPT !.children[old_parent] = Without(@, node_id)]
    ELSE [d EXCEPT !.spec_hierarchies = Without(@, node_id)]

MoveNodeExecute(c, d) ==
    LET found == Search(d, c.node_id)
    IN IF found.node = RecursionError THEN Outcome(FALSE, d, c)
       ELSE LET c1 == [c EXCEPT !.node = found.node, !.old_parent = found.parent]
            IN IF found.node = None THEN Outcome(FALSE, d, c1)
               ELSE LET d1 == MoveDetach(d, found.parent, c.node_id)
                    IN IF c.new_parent_id # None
                       THEN LET np == Search(d1, c.new_parent_id)
                            IN IF np.node \in {None, RecursionError}
                               THEN Outcome(FALSE, d1, c1)
                               ELSE Outcome(TRUE,
                                        [d1 EXCEPT !.children[np.node] = Append(@, found.node)],
                                        c1)
                       ELSE Outcome(TRUE,
                                [d1 EXCEPT !.spec_hierarchies = Append(@, found.node)],
                                c1)

MoveNodeUndo(c, d) ==
    LET np == IF c.new_parent_id # None THEN Search(d, c.new_parent_id)
              ELSE [node |-> None, parent |-> None]
    IN IF np.node = RecursionError THEN Outcome(FALSE, d, c)
       ELSE LET d1 == IF c.new_parent_id # None
                      THEN IF np.node # None
                           THEN [d EXCEPT !.children[np.node] = Without(@, c.node_id)]
                           ELSE d
                      ELSE [d EXCEPT !.spec_hierarchies = Without(@, c.node_id)]
            IN IF c.old_parent # None
               THEN Outcome(TRUE, [d1 EXCEPT !.children[c.old_parent] = Append(@, c.node)], c)
               ELSE Outcome(TRUE, [d1 EXCEPT !.spec_hierarchies = Append(@, c.node)], c)

\* ------------------------------------------- Requirement objects, the heap
NoRef == 0

Alloc(h) == Min({i \in Refs : h[i] = Free})

\* Requirement(req_id=..., title=..., description=...): a new object.
NewRequirement(d, req_id, title, description) ==
    LET ref == Alloc(d.heap)
    IN [ref |-> ref,
        doc |-> [d EXCEPT !.heap[ref] =
                    [req_id |-> req_id, title |-> title, description |-> description]]]

\* copy.deepcopy(obj): a new object with the same field values.
deepcopy(d, obj) ==
    LET ref == Alloc(d.heap)
    IN [ref |-> ref, doc |-> [d EXCEPT !.heap[ref] = d.heap[obj]]]

\* ------------------------------------ ReqIFDocument (the simplified model)
HasRequirement(d, req_id) ==
    \E i \in 1..Len(d.requirements) : d.heap[d.requirements[i]].req_id = req_id

\* doc.get_requirement(req_id): the stored object itself; KeyError when absent.
get_requirement(d, req_id) ==
    IF HasRequirement(d, req_id)
    THEN d.requirements[Min({i \in 1..Len(d.requirements) :
                                d.heap[d.requirements[i]].req_id = req_id})]
    ELSE NoRef

\* doc.add_requirement(obj): stores the object; fails on a duplicate identifier.
add_requirement(d, obj) ==
    IF HasRequirement(d, d.heap[obj].req_id)
    THEN [ok |-> FALSE, doc |-> d]
    ELSE [ok |-> TRUE, doc |-> [d EXCEPT !.requirements = Append(@, obj)]]

\* doc.remove_requirement(req_id): KeyError when absent.
remove_requirement(d, req_id) ==
    IF ~HasRequirement(d, req_id)
    THEN [ok |-> FALSE, doc |-> d]
    ELSE [ok |-> TRUE,
          doc |-> [d EXCEPT !.requirements =
                      SelectSeq(@, LAMBDA o : d.heap[o].req_id # req_id)]]

\* ------------------------------------------------- the requirement commands
AddRequirementExecute(c, d) ==
    LET a == add_requirement(d, c.requirement)
    IN Outcome(a.ok, a.doc, c)

AddRequirementUndo(c, d) ==
    LET r == remove_requirement(d, d.heap[c.requirement].req_id)
    IN Outcome(r.ok, r.doc, c)

RemoveRequirementExecute(c, d) ==
    LET obj == get_requirement(d, c.req_id)
    IN IF obj = NoRef THEN Outcome(FALSE, d, c)
       ELSE LET copy == deepcopy(d, obj)
                r == remove_requirement(copy.doc, c.req_id)
            IN Outcome(TRUE, r.doc, [c EXCEPT !.removed_requirement = copy.ref])

\* undo() that puts nothing back.
RemoveRequirementUndoNothing(c, d) == Outcome(TRUE, d, c)

RemoveRequirementUndo(c, d) ==
    IF c.removed_requirement # NoRef
    THEN LET a == add_requirement(d, c.removed_requirement)
         IN Outcome(a.ok, a.doc, c)
    ELSE Outcome(TRUE, d, c)

UpdateRequirementExecute(c, d) ==
    LET req == get_requirement(d, c.req_id)
    IN IF req = NoRef THEN Outcome(FALSE, d, c)
       ELSE LET copy == deepcopy(d, req)
                d1 == IF c.new_title # None
                      THEN [copy.doc EXCEPT !.heap[req].title = c.new_title]
                      ELSE copy.doc
                d2 == IF c.new_description # None
                      THEN [d1 EXCEPT !.heap[req].description = c.new_description]
                      ELSE d1
            IN Outcome(TRUE, d2, [c EXCEPT !.old_requirement = copy.ref])

\* undo() that restores the title alone.
UpdateRequirementUndoTitle(c, d) ==
    IF c.old_requirement # NoRef /\ HasRequirement(d, c.req_id)
    THEN Outcome(TRUE,
             [d EXCEPT !.heap[get_requirement(d, c.req_id)].title =
                           d.heap[c.old_requirement].title],
             c)
    ELSE Outcome(TRUE, d, c)

UpdateRequirementUndo(c, d) ==
    IF c.old_requirement # NoRef
    THEN LET r == remove_requirement(d, c.req_id)
         IN IF ~r.ok THEN Outcome(FALSE, d, c)
            ELSE LET a == add_requirement(r.doc, c.old_requirement)
                 IN Outcome(a.ok, a.doc, c)
    ELSE Outcome(TRUE, d, c)

\* ---------------------------------------------------- the relation commands
NoRelation ==
    [relation_id |-> None, source_id |-> None, target_id |-> None, relation_type |-> None]

AddNodeRelationshipExecute(c, d) ==
    Outcome(TRUE, [d EXCEPT !.spec_relations = Append(@, c.relation)],
            [c EXCEPT !.executed = TRUE])

AddNodeRelationshipUndo(c, d) ==
    IF c.executed
    THEN Outcome(TRUE,
             [d EXCEPT !.spec_relations =
                 SelectSeq(@, LAMBDA r : r.relation_id # c.relation.relation_id)],
             c)
    ELSE Outcome(TRUE, d, c)

\* execute() that returns normally when no relation has the identifier.
RemoveNodeRelationshipExecuteNoRaise(c, d) ==
    Outcome(TRUE,
            [d EXCEPT !.spec_relations =
                SelectSeq(@, LAMBDA r : r.relation_id # c.relation_id)],
            c)

RemoveNodeRelationshipExecute(c, d) ==
    LET hits == {i \in 1..Len(d.spec_relations) :
                    d.spec_relations[i].relation_id = c.relation_id}
        c1 == IF hits # {} THEN [c EXCEPT !.removed_relation = d.spec_relations[Min(hits)]]
              ELSE c
    IN IF c1.removed_relation = NoRelation THEN Outcome(FALSE, d, c1)
       ELSE Outcome(TRUE,
                [d EXCEPT !.spec_relations =
                    SelectSeq(@, LAMBDA r : r.relation_id # c.relation_id)],
                c1)

RemoveNodeRelationshipUndo(c, d) ==
    IF c.removed_relation # NoRelation
    THEN Outcome(TRUE, [d EXCEPT !.spec_relations = Append(@, c.removed_relation)], c)
    ELSE Outcome(TRUE, d, c)

\* -------------------------------------------------- command objects
NoView ==
    [requirements |-> <<>>, spec_hierarchies |-> <<>>,
     children |-> [n \in NodeIds |-> <<>>], spec_relations |-> <<>>]

\* One record shape for every command class; a class uses its own fields.
\* cid is the object's identity; post is history: the document as it was
\* right after the command's first execute().
NoCommand ==
    [cid |-> 0, kind |-> None,
     requirement |-> NoRef,
     req_id |-> None, removed_requirement |-> NoRef,
     new_title |-> None, new_description |-> None, old_requirement |-> NoRef,
     node_id |-> None, new_parent_id |-> None, old_parent |-> None, node |-> None,
     relation |-> NoRelation, executed |-> FALSE,
     relation_id |-> None, removed_relation |-> NoRelation,
     post |-> NoView]

\* The constructors: the command object and the document (the heap holds the
\* Requirement object made for AddRequirementCommand).
AddRequirementCommand(d, req_id, title, description) ==
    LET new == NewRequirement(d, req_id, title, description)
    IN [cmd |-> [NoCommand EXCEPT !.kind = "AddRequirement", !.requirement = new.ref],
        doc |-> new.doc]

RemoveRequirementCommand(d, req_id) ==
    [cmd |-> [NoCommand EXCEPT !.kind = "RemoveRequirement", !.req_id = req_id],
     doc |-> d]

UpdateRequirementCommand(d, req_id, new_title, new_description) ==
    [cmd |-> [NoCommand EXCEPT !.kind = "UpdateRequirement", !.req_id = req_id,
                               !.new_title = new_title,
                               !.new_description = new_description],
     doc |-> d]

MoveNodeCommand(d, node_id, new_parent_id) ==
    [cmd |-> [NoCommand EXCEPT !.kind = "MoveNode", !.node_id = node_id,
                               !.new_parent_id = new_parent_id],
     doc |-> d]

AddNodeRelationshipCommand(d, relation) ==
    [cmd |-> [NoCommand EXCEPT !.kind = "AddNodeRelationship", !.relation = relation],
     doc |-> d]

RemoveNodeRelationshipCommand(d, relation_id) ==
    [cmd |-> [NoCommand EXCEPT !.kind = "RemoveNodeRelationship",
                               !.relation_id = relation_id],
     doc |-> d]

\* command.execute() and command.undo(), dispatched on the class.
CommandExecute(c, d) ==
    CASE c.kind = "AddRequirement" -> AddRequirementExecute(c, d)
      [] c.kind = "RemoveRequirement" -> RemoveRequirementExecute(c, d)
      [] c.kind = "UpdateRequirement" -> UpdateRequirementExecute(c, d)
      [] c.kind = "MoveNode" -> MoveNodeExecute(c, d)
      [] c.kind = "AddNodeRelationship" -> AddNodeRelationshipExecute(c, d)
      [] c.kind = "RemoveNodeRelationship" -> RemoveNodeRelationshipExecute(c, d)

CommandUndo(c, d) ==
    CASE c.kind = "AddRequirement" -> AddRequirementUndo(c, d)
      [] c.kind = "RemoveRequirement" -> RemoveRequirementUndo(c, d)
      [] c.kind = "UpdateRequirement" -> UpdateRequirementUndo(c, d)
      [] c.kind = "MoveNode" -> MoveNodeUndo(c, d)
      [] c.kind = "AddNodeRelationship" -> AddNodeRelationshipUndo(c, d)
      [] c.kind = "RemoveNodeRelationship" -> RemoveNodeRelationshipUndo(c, d)

\* ------------------------------------------------------ the document's content
\* The nodes reachable from the root list through children lists.
RECURSIVE Reach(_, _)
Reach(ch, S) ==
    LET T == S \cup UNION {Range(ch[n]) : n \in S}
    IN IF T = S THEN S ELSE Reach(ch, T)

InForest(d) == Reach(d.children, Range(d.spec_hierarchies))

\* The document by content: the requirements' field values in list order, the
\* forest (root list and the children lists of the nodes in it), the relations.
View(d) ==
    [requirements |-> [i \in 1..Len(d.requirements) |-> d.heap[d.requirements[i]]],
     spec_hierarchies |-> d.spec_hierarchies,
     children |-> [n \in NodeIds |-> IF n \in InForest(d) THEN d.children[n] ELSE <<>>],
     spec_relations |-> d.spec_relations]

\* ------------------------------------------------------------ CommandManager
\* The Requirement object a command holds (each class holds at most one).
CommandRef(c) ==
    CASE c.kind = "AddRequirement" -> c.requirement
      [] c.kind = "RemoveRequirement" -> c.removed_requirement
      [] c.kind = "UpdateRequirement" -> c.old_requirement
      [] OTHER -> NoRef

\* s without the later occurrences of its elements and without NoRef.
RECURSIVE Distinct(_, _)
Distinct(s, seen) ==
    IF s = <<>> THEN <<>>
    ELSE IF Head(s) \in seen \cup {NoRef} THEN Distinct(Tail(s), seen)
         ELSE <<Head(s)>> \o Distinct(Tail(s), seen \cup {Head(s)})

\* The Requirement objects something still refers to, in the order the
\* document and then the two stacks name them; the others are collected.
LiveRefs(reqs, undos, redos) ==
    Distinct(reqs \o [i \in 1..Len(undos) |-> CommandRef(undos[i])]
                  \o [i \in 1..Len(redos) |-> CommandRef(redos[i])], {})

\* An object's address is not observable: the live objects are renumbered in
\* LiveRefs order, which leaves every reference pointing at the same object.
Renumber(live, ref) ==
    IF ref \in Range(live) THEN CHOOSE i \in 1..Len(live) : live[i] = ref ELSE NoRef

RenumberCommand(live, c) ==
    [c EXCEPT !.requirement = Renumber(live, @),
              !.removed_requirement = Renumber(live, @),
              !.old_requirement = Renumber(live, @)]

\* The state after a call: the document, the stacks and the call's record.
Commit(d, undos, redos, l) ==
    LET live == LiveRefs(d.requirements, undos, redos)
    IN /\ requirements' = [i \in 1..Len(d.requirements) |-> Renumber(live, d.requirements[i])]
       /\ heap' = [i \in Refs |-> IF i <= Len(live) THEN d.heap[live[i]] ELSE Free]
       /\ spec_hierarchies' = d.spec_hierarchies
       /\ children' = d.children
       /\ spec_relations' = d.spec_relations
       /\ undo_stack' = [i \in 1..Len(undos) |-> RenumberCommand(live, undos[i])]
       /\ redo_stack' = [i \in 1..Len(redos) |-> RenumberCommand(live, redos[i])]
       /\ last' = [l EXCEPT !.cmd = RenumberCommand(live, @)]

Cids(stack) == {stack[i].cid : i \in 1..Len(stack)}

Called(op, ok, error, c) == [op |-> op, ok |-> ok, error |-> error, cmd |-> c]

\* execute_command without self._redo_stack.clear().
ExecuteCommandKeepRedo(built) ==
    LET command == [built.cmd EXCEPT !.cid = nextCid]
        r == CommandExecute(command, built.doc)
    IN /\ nextCid' = nextCid + 1
       /\ UNCHANGED <<sqlVars, csvVars, xmlVars>>
       /\ IF r.ok
          THEN /\ abandoned' = abandoned \cup Cids(redo_stack)
               /\ Commit(r.doc, Append(undo_stack, [r.cmd EXCEPT !.post = View(r.doc)]),
                         redo_stack, Called("execute_command", TRUE, None, r.cmd))
          ELSE /\ UNCHANGED abandoned
               /\ Commit(r.doc, undo_stack, redo_stack,
                         Called("execute_command", FALSE, "command", r.cmd))

\* manager.execute_command(command), command newly constructed.
ExecuteCommand(built) ==
    LET command == [built.cmd EXCEPT !.cid = nextCid]
        r == CommandExecute(command, built.doc)
    IN /\ nextCid' = nextCid + 1
       /\ UNCHANGED <<sqlVars, csvVars, xmlVars>>
       /\ IF r.ok
          THEN /\ abandoned' = abandoned \cup Cids(redo_stack)
               /\ Commit(r.doc, Append(undo_stack, [r.cmd EXCEPT !.post = View(r.doc)]),
                         <<>>, Called("execute_command", TRUE, None, r.cmd))
          ELSE /\ UNCHANGED abandoned
               /\ Commit(r.doc, undo_stack, redo_stack,
                         Called("execute_command", FALSE, "command", r.cmd))

\* undo() that returns normally on an empty undo stack.
UndoNoRaise ==
    /\ UNCHANGED <<abandoned, nextCid, sqlVars, csvVars, xmlVars>>
    /\ IF undo_stack = <<>>
       THEN Commit(Doc, undo_stack, redo_stack, Called("undo", TRUE, None, NoCommand))
       ELSE LET command == Last(undo_stack)
                r == CommandUndo(command, Doc)
            IN IF r.ok
               THEN Commit(r.doc, Front(undo_stack), Append(redo_stack, r.cmd),
                           Called("undo", TRUE, None, r.cmd))
               ELSE Commit(r.doc, Front(undo_stack), redo_stack,
                           Called("undo", FALSE, "command", r.cmd))

\* manager.undo()
Undo ==
    /\ UNCHANGED <<abandoned, nextCid, sqlVars, csvVars, xmlVars>>
    /\ IF undo_stack = <<>>
       THEN Commit(Doc, undo_stack, redo_stack,
                   Called("undo", FALSE, "No commands to undo.", NoCommand))
       ELSE LET command == Last(undo_stack)
                r == CommandUndo(command, Doc)
            IN IF r.ok
               THEN Commit(r.doc, Front(undo_stack), Append(redo_stack, r.cmd),
                           Called("undo", TRUE, None, r.cmd))
               ELSE Commit(r.doc, Front(undo_stack), redo_stack,
                           Called("undo", FALSE, "command", r.cmd))

\* redo() that leaves the command on the redo stack.
RedoNoPop ==
    /\ UNCHANGED <<abandoned, nextCid, sqlVars, csvVars, xmlVars>>
    /\ IF redo_stack = <<>>
       THEN Commit(Doc, undo_stack, redo_stack,
                   Called("redo", FALSE, "No commands to redo.", NoCommand))
       ELSE LET command == Last(redo_stack)
                r == CommandExecute(command, Doc)
            IN IF r.ok
               THEN Commit(r.doc, Append(undo_stack, r.cmd), redo_stack,
                           Called("redo", TRUE, None, r.cmd))
               ELSE Commit(r.doc, undo_stack, Front(redo_stack),
                           Called("redo", FALSE, "command", r.cmd))

\* manager.redo()
Redo ==
    /\ UNCHANGED <<abandoned, nextCid, sqlVars, csvVars, xmlVars>>
    /\ IF redo_stack = <<>>
       THEN Commit(Doc, undo_stack, redo_stack,
                   Called("redo", FALSE, "No commands to redo.", NoCommand))
       ELSE LET command == Last(redo_stack)
                r == CommandExecute(command, Doc)
            IN IF r.ok
               THEN Commit(r.doc, Append(undo_stack, r.cmd), Front(redo_stack),
                           Called("redo", TRUE, None, r.cmd))
               ELSE Commit(r.doc, undo_stack, Front(redo_stack),
                           Called("redo", FALSE, "command", r.cmd))

\* ============================================================ SQLiteAdapter
\* datetime objects and the texts isoformat() / fromisoformat() map them to.
Datetimes == {"datetime(2024, 1, 1, 12, 0)", "datetime(2025, 6, 30, 0, 0)"}

isoformat(t) ==
    CASE t = "datetime(2024, 1, 1, 12, 0)" -> "2024-01-01T12:00:00"
      [] t = "datetime(2025, 6, 30, 0, 0)" -> "2025-06-30T00:00:00"

fromisoformat(text) ==
    CASE text \in {"2024-01-01T12:00:00", "2024-01-01T12:00:00.000"} ->
            "datetime(2024, 1, 1, 12, 0)"
      [] text \in {"2025-06-30T00:00:00", "2025-06-30T00:00:00.000"} ->
            "datetime(2025, 6, 30, 0, 0)"

\* x.isoformat() if x else None
IsoOrNone(t) == IF t # None THEN isoformat(t) ELSE None

\* datetime.fromisoformat(x) if x else None
DatetimeOrNone(text) == IF text # None THEN fromisoformat(text) ELSE None

\* The fields of DataTypes; table datatype_<kind> holds the rows of a kind.
DataTypeKinds == {"xhtml", "enumeration", "boolean", "date", "integer", "real", "string"}

\* The kinds whose class and table have a last_change.
DatedKinds == {"xhtml", "enumeration"}

\* One record shape for the data type classes: last_change is used by the
\* dated kinds, enum_values by the enumeration.  NoDataType: the field is None.
NoDataType ==
    [identifier |-> None, last_change |-> None, long_name |-> None, enum_values |-> <<>>]

\* A database file in which create_schema() has made no table yet.
NoTables ==
    [schema |-> FALSE,
     reqif_header |-> <<>>,
     datatype |-> [k \in DataTypeKinds |-> <<>>],
     enum_value |-> <<>>,
     spec_object |-> <<>>,
     spec_object_attribute |-> <<>>,
     specification |-> <<>>,
     spec_hierarchy |-> <<>>,
     tool_extensions |-> <<>>]

\* A table is the sequence of its rows in rowid order.
\* INSERT INTO: a new row at the end.
Insert(table, row) == Append(table, row)

\* INSERT OR REPLACE INTO a table with PRIMARY KEY identifier: the row with
\* the same key is deleted, the new row gets a new rowid.
InsertOrReplace(table, row) ==
    Append(SelectSeq(table, LAMBDA r : r.identifier # row.identifier), row)

\* INSERT OR REPLACE INTO tool_extensions (id, content) VALUES (1, ?)
InsertOrReplaceToolExtensions(table, content) ==
    Append(SelectSeq(table, LAMBDA r : r.id # 1), [id |-> 1, content |-> content])

\* ---------------------------------------------------------------- write
HeaderRow(header) ==
    [identifier |-> header.identifier,
     creation_time |-> isoformat(header.creation_time),
     repository_id |-> header.repository_id,
     reqif_tool_id |-> header.reqif_tool_id,
     reqif_version |-> header.reqif_version,
     source_tool_id |-> header.source_tool_id,
     title |-> header.title]

DataTypeRow(kind, t) ==
    IF kind \in DatedKinds
    THEN [identifier |-> t.identifier, last_change |-> IsoOrNone(t.last_change),
          long_name |-> t.long_name]
    ELSE [identifier |-> t.identifier, long_name |-> t.long_name]

\* for ev in dt.enumeration.enum_values: INSERT OR REPLACE INTO enum_value
RECURSIVE WriteEnumValues(_, _, _)
WriteEnumValues(t, enumeration_id, enum_values) ==
    IF enum_values = <<>> THEN t
    ELSE LET ev == Head(enum_values)
             row == [identifier |-> ev.identifier,
                     enumeration_id |-> enumeration_id,
                     last_change |-> IsoOrNone(ev.last_change),
                     long_name |-> ev.long_name,
                     embedded_key |-> ev.embedded_value.key,
                     embedded_other_content |-> ev.embedded_value.other_content]
         IN WriteEnumValues([t EXCEPT !.enum_value = InsertOrReplace(@, row)],
                            enumeration_id, Tail(enum_values))

\* if dt.<kind>: INSERT OR REPLACE INTO datatype_<kind>, and the enum values
\* of the enumeration.
WriteDataTypes(t, dt) ==
    LET t1 == [t EXCEPT !.datatype =
                  [k \in DataTypeKinds |->
                      IF dt[k] # NoDataType THEN InsertOrReplace(@[k], DataTypeRow(k, dt[k]))
                      ELSE @[k]]]
    IN IF dt["enumeration"] # NoDataType
       THEN WriteEnumValues(t1, dt["enumeration"].identifier, dt["enumeration"].enum_values)
       ELSE t1

\* write() that leaves the attributes of a spec object out.
WriteAttributesNone(t, identifier, attributes) == t

\* for attr in obj.attributes: INSERT INTO spec_object_attribute
RECURSIVE WriteAttributes(_, _, _)
WriteAttributes(t, identifier, attributes) ==
    IF attributes = <<>> THEN t
    ELSE LET attr == Head(attributes)
             row == [spec_object_id |-> identifier,
                     definition_ref |-> attr.definition_ref,
                     value |-> attr.value]
         IN WriteAttributes([t EXCEPT !.spec_object_attribute = Insert(@, row)],
                            identifier, Tail(attributes))

\* for obj in spec_objects: INSERT OR REPLACE INTO spec_object, then its attributes
RECURSIVE WriteSpecObjects(_, _)
WriteSpecObjects(t, spec_objects) ==
    IF spec_objects = <<>> THEN t
    ELSE LET obj == Head(spec_objects)
             row == [identifier |-> obj.identifier,
                     last_change |-> IsoOrNone(obj.last_change),
                     long_name |-> obj.long_name,
                     type_ref |-> obj.type_ref]
             t1 == [t EXCEPT !.spec_object = InsertOrReplace(@, row)]
         IN WriteSpecObjects(WriteAttributes(t1, obj.identifier, obj.attributes),
                             Tail(spec_objects))

\* for hier in spec.spec_hierarchies: INSERT OR REPLACE INTO spec_hierarchy
RECURSIVE WriteHierarchies(_, _, _)
WriteHierarchies(t, specification_id, hierarchies) ==
    IF hierarchies = <<>> THEN t
    ELSE LET hier == Head(hierarchies)
             row == [identifier |-> hier.identifier,
                     specification_id |-> specification_id,
                     last_change |-> IsoOrNone(hier.last_change),
                     long_name |-> hier.long_name,
                     is_editable |-> IF hier.is_editable THEN 1 ELSE 0,
                     object_ref |-> hier.object_ref]
         IN WriteHierarchies([t EXCEPT !.spec_hierarchy = InsertOrReplace(@, row)],
                             specification_id, Tail(hierarchies))

\* for spec in specifications: INSERT OR REPLACE INTO specification, then its
\* hierarchy entries
RECURSIVE WriteSpecifications(_, _)
WriteSpecifications(t, specifications) ==
    IF specifications = <<>> THEN t
    ELSE LET spec == Head(specifications)
             row == [identifier |-> spec.identifier,
                     last_change |-> IsoOrNone(spec.last_change),
                     long_name |-> spec.long_name,
                     type_ref |-> spec.type_ref]
             t1 == [t EXCEPT !.specification = InsertOrReplace(@, row)]
         IN WriteSpecifications(WriteHierarchies(t1, spec.identifier, spec.spec_hierarchies),
                                Tail(specifications))

\* if reqif.tool_extensions: None and "" write no row.
WriteToolExtensions(t, tool_extensions) ==
    IF tool_extensions \notin {None, ""}
    THEN [t EXCEPT !.tool_extensions = InsertOrReplaceToolExtensions(@, tool_extensions)]
    ELSE t

\* The tables after write(reqif) has committed.
WriteTables(t, reqif) ==
    LET t1 == [t EXCEPT !.reqif_header = InsertOrReplace(@, HeaderRow(reqif.header))]
        t2 == WriteDataTypes(t1, reqif.core_content.reqif_content.data_types)
        t3 == WriteSpecObjects(t2, reqif.core_content.reqif_content.spec_objects)
        t4 == WriteSpecifications(t3, reqif.core_content.reqif_content.specifications)
    IN WriteToolExtensions(t4, reqif.tool_extensions)

\* ----------------------------------------------------------------- read
\* SELECT ... WHERE column = value, in rowid order.
RowsWhere(table, column, value) == SelectSeq(table, LAMBDA r : r[column] = value)

ReadEnumValues(t, enumeration_id) ==
    LET rows == RowsWhere(t.enum_value, "enumeration_id", enumeration_id)
    IN [i \in 1..Len(rows) |->
          [identifier |-> rows[i].identifier,
           last_change |-> DatetimeOrNone(rows[i].last_change),
           long_name |-> rows[i].long_name,
           embedded_value |-> [key |-> rows[i].embedded_key,
                               other_content |-> rows[i].embedded_other_content]]]

\* SELECT * FROM datatype_<kind> LIMIT 1; if row: the data type object.
ReadDataType(t, kind) ==
    IF t.datatype[kind] = <<>> THEN NoDataType
    ELSE LET row == Head(t.datatype[kind])
         IN [identifier |-> row.identifier,
             last_change |-> IF kind \in DatedKinds THEN DatetimeOrNone(row.last_change)
                             ELSE None,
             long_name |-> row.long_name,
             enum_values |-> IF kind = "enumeration" THEN ReadEnumValues(t, row.identifier)
                             ELSE <<>>]

ReadAttributes(t, identifier) ==
    LET rows == RowsWhere(t.spec_object_attribute, "spec_object_id", identifier)
    IN [i \in 1..Len(rows) |->
          [definition_ref |-> rows[i].definition_ref, value |-> rows[i].value]]

ReadSpecObjects(t) ==
    [i \in 1..Len(t.spec_object) |->
        LET row == t.spec_object[i]
        IN [identifier |-> row.identifier,
            last_change |-> DatetimeOrNone(row.last_change),
            long_name |-> row.long_name,
            type_ref |-> row.type_ref,
            attributes |-> ReadAttributes(t, row.identifier)]]

ReadHierarchies(t, spec_id) ==
    LET rows == RowsWhere(t.spec_hierarchy, "specification_id", spec_id)
    IN [i \in 1..Len(rows) |->
          [identifier |-> rows[i].identifier,
           last_change |-> DatetimeOrNone(rows[i].last_change),
           long_name |-> rows[i].long_name,
           is_editable |-> rows[i].is_editable # 0,
           object_ref |-> rows[i].object_ref]]

ReadSpecifications(t) ==
    [i \in 1..Len(t.specification) |->
        LET spec_row == t.specification[i]
        IN [identifier |-> spec_row.identifier,
            last_change |-> DatetimeOrNone(spec_row.last_change),
            long_name |-> spec_row.long_name,
            type_ref |-> spec_row.type_ref,
            spec_hierarchies |-> ReadHierarchies(t, spec_row.identifier)]]

\* SELECT content FROM tool_extensions WHERE id=1; row[0] if row else None
ReadToolExtensions(t) ==
    LET rows == SelectSeq(t.tool_extensions, LAMBDA r : r.id = 1)
    IN IF rows # <<>> THEN Head(rows).content ELSE None

\* The ReqIF read() builds from the tables; the header is the first row of
\* reqif_header (the table is not empty).
ReadTables(t) ==
    LET row == Head(t.reqif_header)
    IN [header |-> [identifier |-> row.identifier,
                    creation_time |-> fromisoformat(row.creation_time),
                    repository_id |-> row.repository_id,
                    reqif_tool_id |-> row.reqif_tool_id,
                    reqif_version |-> row.reqif_version,
                    source_tool_id |-> row.source_tool_id,
                    title |-> row.title],
        core_content |->
            [reqif_content |->
                [data_types |-> [k \in DataTypeKinds |-> ReadDataType(t, k)],
                 spec_objects |-> ReadSpecObjects(t),
                 specifications |-> ReadSpecifications(t)]],
        tool_extensions |-> ReadToolExtensions(t)]

\* ------------------------------------------------------- adapter calls
\* No ReqIF: nothing read yet, or the call took or returned none.
NoReqIF ==
    [header |-> [identifier |-> None, creation_time |-> None, repository_id |-> None,
                 reqif_tool_id |-> None, reqif_version |-> None,
                 source_tool_id |-> None, title |-> None],
     core_content |->
         [reqif_content |->
             [data_types |-> [k \in DataTypeKinds |-> NoDataType],
              spec_objects |-> <<>>,
              specifications |-> <<>>]],
     tool_extensions |-> None]

SqlCalled(op, ok, reqif) == [op |-> op, ok |-> ok, reqif |-> reqif]

\* CREATE TABLE IF NOT EXISTS for every table: existing rows stay.
create_schema ==
    /\ db' = [db EXCEPT !.schema = TRUE]
    /\ sql_last' = SqlCalled("create_schema", TRUE, NoReqIF)
    /\ UNCHANGED <<loaded, writes, cmdVars, csvVars, xmlVars>>

\* adapter.write(reqif); without the tables the first INSERT raises and
\* nothing is committed.
write(reqif) ==
    /\ writes' = writes + 1
    /\ IF db.schema
       THEN /\ db' = WriteTables(db, reqif)
            /\ sql_last' = SqlCalled("write", TRUE, reqif)
       ELSE /\ db' = db
            /\ sql_last' = SqlCalled("write", FALSE, reqif)
    /\ UNCHANGED <<loaded, cmdVars, csvVars, xmlVars>>

\* adapter.read(); it raises without the tables and with an empty
\* reqif_header (row is None).
read ==
    /\ IF db.schema /\ db.reqif_header # <<>>
       THEN /\ loaded' = ReadTables(db)
            /\ sql_last' = SqlCalled("read", TRUE, NoReqIF)
       ELSE /\ loaded' = loaded
            /\ sql_last' = SqlCalled("read", FALSE, NoReqIF)
    /\ UNCHANGED <<db, writes, cmdVars, csvVars, xmlVars>>

\* A new database file and no adapter call yet.
SqlInit ==
    /\ db = NoTables
    /\ loaded = NoReqIF
    /\ sql_last = SqlCalled("init", TRUE, NoReqIF)
    /\ writes = 0

\* =============================================================== CSVAdapter
\* The files write() makes in the folder, one per table.
DataTypeFile(kind) == "datatype_" \o kind \o ".csv"

CsvFiles ==
    {"header.csv", "enum_value.csv", "spec_object.csv", "spec_object_attribute.csv",
     "specification.csv", "spec_hierarchy.csv", "tool_extensions.csv"}
        \cup {DataTypeFile(k) : k \in DataTypeKinds}

\* The folder after os.makedirs: no file.  rows[f] is the content of file f
\* when f is in files.
EmptyFolder == [files |-> {}, rows |-> [f \in CsvFiles |-> <<>>]]

\* open(file_path, "w"): the file is made or truncated, then the rows written.
write_csv(f, filename, rows) ==
    [files |-> f.files \cup {filename},
     rows |-> [f.rows EXCEPT ![filename] = rows]]

\* [] if the file does not exist, else its rows as dictionaries of strings.
read_csv(f, filename) ==
    IF filename \notin f.files THEN <<>> ELSE f.rows[filename]

\* x.isoformat() if x else ""
IsoOrEmpty(t) == IF t # None THEN isoformat(t) ELSE ""

\* datetime.fromisoformat(x) if x else None, x a string of the file
DatetimeOrNoneCsv(text) == IF text # "" THEN fromisoformat(text) ELSE None

CsvHeaderRow(header) ==
    [identifier |-> header.identifier,
     creation_time |-> isoformat(header.creation_time),
     repository_id |-> header.repository_id,
     reqif_tool_id |-> header.reqif_tool_id,
     reqif_version |-> header.reqif_version,
     source_tool_id |-> header.source_tool_id,
     title |-> header.title]

CsvDataTypeRow(kind, t) ==
    IF kind \in DatedKinds
    THEN [identifier |-> t.identifier, last_change |-> IsoOrEmpty(t.last_change),
          long_name |-> t.long_name]
    ELSE [identifier |-> t.identifier, long_name |-> t.long_name]

CsvEnumValueRows(enumeration) ==
    [i \in 1..Len(enumeration.enum_values) |->
        LET ev == enumeration.enum_values[i]
        IN [identifier |-> ev.identifier,
            enumeration_id |-> enumeration.identifier,
            last_change |-> IsoOrEmpty(ev.last_change),
            long_name |-> ev.long_name,
            embedded_key |-> ev.embedded_value.key,
            embedded_other_content |-> ev.embedded_value.other_content]]

\* if dt.<kind>: its file is written; a kind that is None writes no file.
RECURSIVE CsvWriteDataTypes(_, _, _)
CsvWriteDataTypes(f, dt, kinds) ==
    IF kinds = {} THEN f
    ELSE LET k == CHOOSE x \in kinds : TRUE
             f1 == IF dt[k] # NoDataType
                   THEN write_csv(f, DataTypeFile(k), <<CsvDataTypeRow(k, dt[k])>>)
                   ELSE f
             f2 == IF k = "enumeration" /\ dt[k] # NoDataType
                   THEN write_csv(f1, "enum_value.csv", CsvEnumValueRows(dt[k]))
                   ELSE f1
         IN CsvWriteDataTypes(f2, dt, kinds \ {k})

CsvSpecObjectRows(spec_objects) ==
    [i \in 1..Len(spec_objects) |->
        [identifier |-> spec_objects[i].identifier,
         last_change |-> IsoOrEmpty(spec_objects[i].last_change),
         long_name |-> spec_objects[i].long_name,
         type_ref |-> spec_objects[i].type_ref]]

\* spec_obj_attr_rows: the attributes of every object, in object order.
RECURSIVE CsvAttributeRows(_)
CsvAttributeRows(spec_objects) ==
    IF spec_objects = <<>> THEN <<>>
    ELSE LET obj == Head(spec_objects)
         IN [i \in 1..Len(obj.attributes) |->
                [spec_object_id |-> obj.identifier,
                 definition_ref |-> obj.attributes[i].definition_ref,
                 value |-> obj.attributes[i].value]]
            \o CsvAttributeRows(Tail(spec_objects))

CsvSpecificationRows(specifications) ==
    [i \in 1..Len(specifications) |->
        [identifier |-> specifications[i].identifier,
         last_change |-> IsoOrEmpty(specifications[i].last_change),
         long_name |-> specifications[i].long_name,
         type_ref |-> specifications[i].type_ref]]

\* spec_hier_rows: the entries of spec.spec_hierarchies of every specification.
RECURSIVE CsvHierarchyRows(_)
CsvHierarchyRows(specifications) ==
    IF specifications = <<>> THEN <<>>
    ELSE LET spec == Head(specifications)
         IN [i \in 1..Len(spec.spec_hierarchies) |->
                LET hier == spec.spec_hierarchies[i]
                IN [identifier |-> hier.identifier,
                    specification_id |-> spec.identifier,
                    last_change |-> IsoOrEmpty(hier.last_change),
                    long_name |-> hier.long_name,
                    is_editable |-> IF hier.is_editable THEN "1" ELSE "0",
                    object_ref |-> hier.object_ref]]
            \o CsvHierarchyRows(Tail(specifications))

\* reqif.tool_extensions if reqif.tool_extensions else ""
CsvToolExtensionsRow(tool_extensions) ==
    [id |-> "1",
     content |-> IF tool_extensions \notin {None, ""} THEN tool_extensions ELSE ""]

\* The folder after CSVAdapter.write(reqif).
CsvWriteFolder(f, reqif) ==
    LET content == reqif.core_content.reqif_content
        f1 == write_csv(f, "header.csv", <<CsvHeaderRow(reqif.header)>>)
        f2 == CsvWriteDataTypes(f1, content.data_types, DataTypeKinds)
        f3 == write_csv(f2, "spec_object.csv", CsvSpecObjectRows(content.spec_objects))
        f4 == write_csv(f3, "spec_object_attribute.csv",
                         CsvAttributeRows(content.spec_objects))
        f5 == write_csv(f4, "specification.csv",
                         CsvSpecificationRows(content.specifications))
        f6 == write_csv(f5, "spec_hierarchy.csv", CsvHierarchyRows(content.specifications))
    IN write_csv(f6, "tool_extensions.csv",
                  <<CsvToolExtensionsRow(reqif.tool_extensions)>>)

\* ------------------------------------------------------------ CSV read
\* The rows of `rows` whose column has the value, in file order.
CsvRowsWhere(rows, column, value) == SelectSeq(rows, LAMBDA r : r[column] = value)

CsvReadEnumValues(f, enumeration_id) ==
    LET rows == CsvRowsWhere(read_csv(f, "enum_value.csv"), "enumeration_id", enumeration_id)
    IN [i \in 1..Len(rows) |->
          [identifier |-> rows[i].identifier,
           last_change |-> DatetimeOrNoneCsv(rows[i].last_change),
           long_name |-> rows[i].long_name,
           embedded_value |-> [key |-> rows[i].embedded_key,
                               other_content |-> rows[i].embedded_other_content]]]

\* rows = read_csv("datatype_<kind>.csv"); if rows: the data type of rows[0].
CsvReadDataType(f, kind) ==
    LET rows == read_csv(f, DataTypeFile(kind))
    IN IF rows = <<>> THEN NoDataType
       ELSE [identifier |-> rows[1].identifier,
             last_change |-> IF kind \in DatedKinds
                             THEN DatetimeOrNoneCsv(rows[1].last_change)
                             ELSE None,
             long_name |-> rows[1].long_name,
             enum_values |-> IF kind = "enumeration"
                             THEN CsvReadEnumValues(f, rows[1].identifier)
                             ELSE <<>>]

CsvReadAttributes(f, identifier) ==
    LET rows == CsvRowsWhere(read_csv(f, "spec_object_attribute.csv"),
                             "spec_object_id", identifier)
    IN [i \in 1..Len(rows) |->
          [definition_ref |-> rows[i].definition_ref, value |-> rows[i].value]]

CsvReadSpecObjects(f) ==
    LET rows == read_csv(f, "spec_object.csv")
    IN [i \in 1..Len(rows) |->
          [identifier |-> rows[i].identifier,
           last_change |-> DatetimeOrNoneCsv(rows[i].last_change),
           long_name |-> rows[i].long_name,
           type_ref |-> rows[i].type_ref,
           attributes |-> CsvReadAttributes(f, rows[i].identifier)]]

CsvReadHierarchies(f, identifier) ==
    LET rows == CsvRowsWhere(read_csv(f, "spec_hierarchy.csv"),
                             "specification_id", identifier)
    IN [i \in 1..Len(rows) |->
          [identifier |-> rows[i].identifier,
           last_change |-> DatetimeOrNoneCsv(rows[i].last_change),
           long_name |-> rows[i].long_name,
           is_editable |-> rows[i].is_editable = "1",
           object_ref |-> rows[i].object_ref]]

CsvReadSpecifications(f) ==
    LET rows == read_csv(f, "specification.csv")
    IN [i \in 1..Len(rows) |->
          [identifier |-> rows[i].identifier,
           last_change |-> DatetimeOrNoneCsv(rows[i].last_change),
           long_name |-> rows[i].long_name,
           type_ref |-> rows[i].type_ref,
           spec_hierarchies |-> CsvReadHierarchies(f, rows[i].identifier)]]

\* tool_rows[0]["content"] if tool_rows else None
CsvReadToolExtensions(f) ==
    LET tool_rows == read_csv(f, "tool_extensions.csv")
    IN IF tool_rows # <<>> THEN tool_rows[1].content ELSE None

\* The ReqIF CSVAdapter.read() builds; header.csv has a row.
CsvReadFolder(f) ==
    LET header_row == read_csv(f, "header.csv")[1]
    IN [header |-> [identifier |-> header_row.identifier,
                    creation_time |-> fromisoformat(header_row.creation_time),
                    repository_id |-> header_row.repository_id,
                    reqif_tool_id |-> header_row.reqif_tool_id,
                    reqif_version |-> header_row.reqif_version,
                    source_tool_id |-> header_row.source_tool_id,
                    title |-> header_row.title],
        core_content |->
            [reqif_content |->
                [data_types |-> [k \in DataTypeKinds |-> CsvReadDataType(f, k)],
                 spec_objects |-> CsvReadSpecObjects(f),
                 specifications |-> CsvReadSpecifications(f)]],
        tool_extensions |-> CsvReadToolExtensions(f)]

\* ------------------------------------------------------ CSV adapter calls
\* adapter.write(reqif)
CsvWrite(reqif) ==
    /\ folder' = CsvWriteFolder(folder, reqif)
    /\ csv_last' = SqlCalled("write", TRUE, reqif)
    /\ csv_writes' = csv_writes + 1
    /\ UNCHANGED <<csv_loaded, cmdVars, sqlVars, xmlVars>>

\* adapter.read(): header.csv without a row raises IndexError.
CsvRead ==
    /\ IF read_csv(folder, "header.csv") # <<>>
       THEN /\ csv_loaded' = CsvReadFolder(folder)
            /\ csv_last' = SqlCalled("read", TRUE, NoReqIF)
       ELSE /\ csv_loaded' = csv_loaded
            /\ csv_last' = SqlCalled("read", FALSE, NoReqIF)
    /\ UNCHANGED <<folder, csv_writes, cmdVars, sqlVars, xmlVars>>

\* CSVAdapter(folder_path) on a new folder.
CsvInit ==
    /\ folder = EmptyFolder
    /\ csv_loaded = NoReqIF
    /\ csv_last = SqlCalled("init", TRUE, NoReqIF)
    /\ csv_writes = 0

\* ------------------------------------------------- ReqIFWriter / ReqIFParser
\* An XML element as ElementTree holds it: tag is <<namespace, local name>>
\* (namespace "" for a tag without one), attrib a set of <<name, value>>,
\* text None for an element without text, children in document order.
Element(tag, attrib, text, subelements) ==
    [tag |-> tag, attrib |-> attrib, text |-> text, children |-> subelements]

\* What find() returns when nothing matches, and a file that does not exist.
NoElement == Element(<<"", None>>, {}, None, <<>>)

ReqifNs == "http://www.omg.org/spec/ReqIF/20110401/reqif.xsd"
XhtmlNs == "http://www.w3.org/1999/xhtml"

\* ReqIFWriter.ns, handed to ET.Element("REQ-IF", self.ns) as its attributes.
WriterNs == {<<"", ReqifNs>>, <<"xhtml", XhtmlNs>>, <<"reqif-xhtml", XhtmlNs>>}

\* _format_datetime of a datetime without tzinfo: isoformat(timespec="milliseconds")
format_datetime(t) ==
    CASE t = "datetime(2024, 1, 1, 12, 0)" -> "2024-01-01T12:00:00.000"
      [] t = "datetime(2025, 6, 30, 0, 0)" -> "2025-06-30T00:00:00.000"

\* The attributes IDENTIFIER, LAST-CHANGE, LONG-NAME the writer gives an
\* entity: LAST-CHANGE is "" when last_change is unset.
WriterAttrib(x) ==
    {<<"IDENTIFIER", x.identifier>>,
     <<"LAST-CHANGE", IF x.last_change # None THEN format_datetime(x.last_change) ELSE "">>,
     <<"LONG-NAME", x.long_name>>}

\* _create_sub_element: an element without namespace holding text.
create_sub_element(tag, text) == Element(<<"", tag>>, {}, text, <<>>)

\* THE-HEADER
WriterHeader(header) ==
    Element(<<"", "THE-HEADER">>, {}, None,
        <<Element(<<"", "REQ-IF-HEADER">>, {<<"IDENTIFIER", header.identifier>>}, None,
            <<create_sub_element("CREATION-TIME", format_datetime(header.creation_time)),
              create_sub_element("REPOSITORY-ID", header.repository_id),
              create_sub_element("REQ-IF-TOOL-ID", header.reqif_tool_id),
              create_sub_element("REQ-IF-VERSION", header.reqif_version),
              create_sub_element("SOURCE-TOOL-ID", header.source_tool_id),
              create_sub_element("TITLE", header.title)>>)>>)

\* DATATYPES: the xhtml and the enumeration data type only.
WriterDataTypes(dt) ==
    LET ev_elem(ev) ==
            Element(<<"", "ENUM-VALUE">>, WriterAttrib(ev), None,
                <<Element(<<"", "PROPERTIES">>, {}, None,
                    <<Element(<<"", "EMBEDDED-VALUE">>,
                              {<<"KEY", ev.embedded_value.key>>,
                               <<"OTHER-CONTENT", ev.embedded_value.other_content>>},
                              None, <<>>)>>)>>)
        xhtml == IF dt.xhtml # NoDataType
                 THEN <<Element(<<"", "DATATYPE-DEFINITION-XHTML">>,
                                WriterAttrib(dt.xhtml), None, <<>>)>>
                 ELSE <<>>
        enumeration ==
            IF dt.enumeration # NoDataType
            THEN <<Element(<<"", "DATATYPE-DEFINITION-ENUMERATION">>,
                           WriterAttrib(dt.enumeration), None,
                           <<Element(<<"", "SPECIFIED-VALUES">>, {}, None,
                                [i \in 1..Len(dt.enumeration.enum_values) |->
                                    ev_elem(dt.enumeration.enum_values[i])])>>)>>
            ELSE <<>>
    IN Element(<<"", "DATATYPES">>, {}, None, xhtml \o enumeration)

\* SPEC-OBJECT: every attribute as ATTRIBUTE-VALUE-XHTML with its value in an
\* xhtml div, then TYPE.
WriterSpecObject(obj) ==
    LET attr_elem(attr) ==
            Element(<<"", "ATTRIBUTE-VALUE-XHTML">>, {}, None,
                <<Element(<<"", "DEFINITION">>, {}, None,
                    <<create_sub_element("ATTRIBUTE-DEFINITION-XHTML-REF",
                                         attr.definition_ref)>>),
                  Element(<<"", "THE-VALUE">>, {}, None,
                    <<Element(<<XhtmlNs, "div">>, {}, attr.value, <<>>)>>)>>)
    IN Element(<<"", "SPEC-OBJECT">>, WriterAttrib(obj), None,
          <<Element(<<"", "VALUES">>, {}, None,
                [i \in 1..Len(obj.attributes) |-> attr_elem(obj.attributes[i])]),
            Element(<<"", "TYPE">>, {}, None,
                <<create_sub_element("SPEC-OBJECT-TYPE-REF", obj.type_ref)>>)>>)

\* SPECIFICATION: empty VALUES, TYPE, and CHILDREN holding the entries of
\* spec.spec_hierarchies.
WriterSpecification(spec) ==
    LET hier_elem(hier) ==
            Element(<<"", "SPEC-HIERARCHY">>,
                    WriterAttrib(hier) \cup
                        {<<"IS-EDITABLE", IF hier.is_editable THEN "true" ELSE "false">>},
                    None,
                    <<Element(<<"", "OBJECT">>, {}, None,
                        <<create_sub_element("SPEC-OBJECT-REF", hier.object_ref)>>)>>)
    IN Element(<<"", "SPECIFICATION">>, WriterAttrib(spec), None,
          <<Element(<<"", "VALUES">>, {}, None, <<>>),
            Element(<<"", "TYPE">>, {}, None,
                <<create_sub_element("SPECIFICATION-TYPE-REF", spec.type_ref)>>),
            Element(<<"", "CHILDREN">>, {}, None,
                [i \in 1..Len(spec.spec_hierarchies) |->
                    hier_elem(spec.spec_hierarchies[i])])>>)

\* The tree write() builds: the root carries self.ns as attributes, and
\* TOOL-EXTENSIONS is left empty whatever reqif.tool_extensions holds.
WriterRoot(reqif) ==
    LET content == reqif.core_content.reqif_content
    IN Element(<<"", "REQ-IF">>, WriterNs, None,
          <<WriterHeader(reqif.header),
            Element(<<"", "CORE-CONTENT">>, {}, None,
                <<Element(<<"", "REQ-IF-CONTENT">>, {}, None,
                    <<WriterDataTypes(content.data_types),
                      Element(<<"", "SPEC-OBJECTS">>, {}, None,
                          [i \in 1..Len(content.spec_objects) |->
                              WriterSpecObject(content.spec_objects[i])]),
                      Element(<<"", "SPECIFICATIONS">>, {}, None,
                          [i \in 1..Len(content.specifications) |->
                              WriterSpecification(content.specifications[i])])>>)>>),
            Element(<<"", "TOOL-EXTENSIONS">>, {}, None, <<>>)>>)

\* ET.tostring writes every attribute as name="value"; minidom.parseString
\* (expat) takes the text only if every attribute has a name.
RECURSIVE WellFormed(_)
WellFormed(e) ==
    /\ \A a \in e.attrib : a[1] # ""
    /\ \A i \in 1..Len(e.children) : WellFormed(e.children[i])

\* ReqIFWriter(reqif).write(): the document as text, or ExpatError from
\* minidom.parseString.  Pretty printing indents elements and leaves the
\* text of a leaf as it is.
ReqIFWriterWrite(reqif) ==
    LET root == WriterRoot(reqif)
    IN IF WellFormed(root)
       THEN [ok |-> TRUE, xml |-> root]
       ELSE [ok |-> FALSE, xml |-> NoElement]

\* elem.find("reqif:<name>", self.ns): the first child with that name in the
\* ReqIF namespace.
find(e, name) ==
    LET found == SelectSeq(e.children, LAMBDA c : c.tag = <<ReqifNs, name>>)
    IN IF found = <<>> THEN NoElement ELSE found[1]

\* elem.findall("reqif:<name>", self.ns)
findall(e, name) == SelectSeq(e.children, LAMBDA c : c.tag = <<ReqifNs, name>>)

\* elem.findtext("reqif:<name>", default="", namespaces=self.ns)
findtext(e, name) ==
    IF find(e, name) = NoElement \/ find(e, name).text = None
    THEN ""
    ELSE find(e, name).text

\* elem.attrib.get(name)
get(e, name) ==
    IF \E a \in e.attrib : a[1] = name
    THEN (CHOOSE a \in e.attrib : a[1] = name)[2]
    ELSE None

\* _strip_ns
strip_ns(tag) == tag[2]

\* The texts datetime.fromisoformat takes; it raises ValueError on any other.
IsoTexts ==
    {isoformat(t) : t \in Datetimes} \cup {format_datetime(t) : t \in Datetimes}

\* A parser that gives an entity without LAST-CHANGE a timestamp.
ParseLastChangeDefault(e) ==
    IF get(e, "LAST-CHANGE") # None
    THEN fromisoformat(get(e, "LAST-CHANGE"))
    ELSE "datetime(2024, 1, 1, 12, 0)"

\* parse_datetime(elem.attrib.get("LAST-CHANGE")) if "LAST-CHANGE" in
\* elem.attrib else None
ParseLastChange(e) ==
    IF get(e, "LAST-CHANGE") # None
    THEN fromisoformat(get(e, "LAST-CHANGE"))
    ELSE None

\* _parse_header
ParseHeader(header_elem) ==
    [identifier |-> get(header_elem, "IDENTIFIER"),
     creation_time |-> fromisoformat(findtext(header_elem, "CREATION-TIME")),
     repository_id |-> findtext(header_elem, "REPOSITORY-ID"),
     reqif_tool_id |-> findtext(header_elem, "REQ-IF-TOOL-ID"),
     reqif_version |-> findtext(header_elem, "REQ-IF-VERSION"),
     source_tool_id |-> findtext(header_elem, "SOURCE-TOOL-ID"),
     title |-> findtext(header_elem, "TITLE")]

\* _parse_data_types: a child sets the field of its kind, a later child of
\* the same kind replaces it; no DATATYPES element leaves every field unset.
ParseDataTypes(datatypes_elem) ==
    LET tag == [xhtml |-> "DATATYPE-DEFINITION-XHTML",
                enumeration |-> "DATATYPE-DEFINITION-ENUMERATION",
                boolean |-> "DATATYPE-DEFINITION-BOOLEAN",
                date |-> "DATATYPE-DEFINITION-DATE",
                integer |-> "DATATYPE-DEFINITION-INTEGER",
                real |-> "DATATYPE-DEFINITION-REAL",
                string |-> "DATATYPE-DEFINITION-STRING"]
        ev(enum_elem) ==
            LET embedded == find(find(enum_elem, "PROPERTIES"), "EMBEDDED-VALUE")
            IN [identifier |-> get(enum_elem, "IDENTIFIER"),
                last_change |-> ParseLastChange(enum_elem),
                long_name |-> get(enum_elem, "LONG-NAME"),
                embedded_value |-> [key |-> get(embedded, "KEY"),
                                    other_content |-> get(embedded, "OTHER-CONTENT")]]
        values(child) == findall(find(child, "SPECIFIED-VALUES"), "ENUM-VALUE")
        dt(k) ==
            LET of_kind == SelectSeq(datatypes_elem.children,
                                     LAMBDA c : strip_ns(c.tag) = tag[k])
                child == of_kind[Len(of_kind)]
            IN IF of_kind = <<>>
               THEN NoDataType
               ELSE [identifier |-> get(child, "IDENTIFIER"),
                     last_change |-> IF k \in DatedKinds THEN ParseLastChange(child) ELSE None,
                     long_name |-> get(child, "LONG-NAME"),
                     enum_values |->
                        IF k = "enumeration"
                        THEN [i \in 1..Len(values(child)) |-> ev(values(child)[i])]
                        ELSE <<>>]
    IN [k \in DataTypeKinds |-> dt(k)]

\* _parse_spec_objects: the value of an attribute is the text of the first
\* child of THE-VALUE, "" when THE-VALUE is missing or has no child.
ParseSpecObjects(spec_objects_elem) ==
    LET attribute(attr_elem) ==
            LET definition_elem ==
                    find(find(attr_elem, "DEFINITION"), "ATTRIBUTE-DEFINITION-XHTML-REF")
                the_value_elem == find(attr_elem, "THE-VALUE")
            IN [definition_ref |->
                    IF definition_elem # NoElement THEN definition_elem.text ELSE "",
                value |->
                    IF the_value_elem # NoElement /\ Len(the_value_elem.children) > 0
                    THEN the_value_elem.children[1].text
                    ELSE ""]
        object(obj_elem) ==
            LET type_ref_elem == find(find(obj_elem, "TYPE"), "SPEC-OBJECT-TYPE-REF")
                values_elem == find(obj_elem, "VALUES")
            IN [identifier |-> get(obj_elem, "IDENTIFIER"),
                last_change |-> ParseLastChange(obj_elem),
                long_name |-> get(obj_elem, "LONG-NAME"),
                type_ref |-> IF type_ref_elem # NoElement THEN type_ref_elem.text ELSE "",
                attributes |->
                    [i \in 1..Len(values_elem.children) |->
                        attribute(values_elem.children[i])]]
        objs == findall(spec_objects_elem, "SPEC-OBJECT")
    IN [i \in 1..Len(objs) |-> object(objs[i])]

\* _parse_specifications: the SPEC-HIERARCHY elements directly under CHILDREN.
ParseSpecifications(spec_elem) ==
    LET entry(hier) ==
            LET obj_elem == find(find(hier, "OBJECT"), "SPEC-OBJECT-REF")
            IN [identifier |-> get(hier, "IDENTIFIER"),
                last_change |-> ParseLastChange(hier),
                long_name |-> get(hier, "LONG-NAME"),
                is_editable |-> get(hier, "IS-EDITABLE") \in {"true", "True", "TRUE"},
                object_ref |-> IF obj_elem # NoElement THEN obj_elem.text ELSE ""]
        specification(spec) ==
            LET type_ref_elem == find(find(spec, "TYPE"), "SPECIFICATION-TYPE-REF")
                hiers == findall(find(spec, "CHILDREN"), "SPEC-HIERARCHY")
            IN [identifier |-> get(spec, "IDENTIFIER"),
                last_change |-> ParseLastChange(spec),
                long_name |-> get(spec, "LONG-NAME"),
                type_ref |-> IF type_ref_elem # NoElement THEN type_ref_elem.text ELSE "",
                spec_hierarchies |-> [i \in 1..Len(hiers) |-> entry(hiers[i])]]
        specs == findall(spec_elem, "SPECIFICATION")
    IN [i \in 1..Len(specs) |-> specification(specs[i])]

\* ET.tostring(tool_extensions, encoding="unicode") of a TOOL-EXTENSIONS
\* element holding text only.
tostring(e) ==
    IF e.text = None
    THEN "<ns0:TOOL-EXTENSIONS xmlns:ns0=\"" \o ReqifNs \o "\" />"
    ELSE "<ns0:TOOL-EXTENSIONS xmlns:ns0=\"" \o ReqifNs \o "\">" \o e.text
            \o "</ns0:TOOL-EXTENSIONS>"

\* The sources parse() raises on: no header, CORE-CONTENT or REQ-IF-CONTENT
\* element (AttributeError on None), an enum value without EMBEDDED-VALUE
\* (the same), a CREATION-TIME or LAST-CHANGE text that fromisoformat does
\* not take (ValueError).
ParseRaises(root) ==
    LET header_elem == find(find(root, "THE-HEADER"), "REQ-IF-HEADER")
        content_elem == find(find(root, "CORE-CONTENT"), "REQ-IF-CONTENT")
        dts == {c \in Range(find(content_elem, "DATATYPES").children) :
                   strip_ns(c.tag) \in {"DATATYPE-DEFINITION-XHTML",
                                        "DATATYPE-DEFINITION-ENUMERATION"}}
        evs == UNION {Range(findall(find(c, "SPECIFIED-VALUES"), "ENUM-VALUE")) :
                         c \in {d \in dts :
                                   strip_ns(d.tag) = "DATATYPE-DEFINITION-ENUMERATION"}}
        sos == Range(findall(find(content_elem, "SPEC-OBJECTS"), "SPEC-OBJECT"))
        sps == Range(findall(find(content_elem, "SPECIFICATIONS"), "SPECIFICATION"))
        shs == UNION {Range(findall(find(s, "CHILDREN"), "SPEC-HIERARCHY")) : s \in sps}
    IN \/ header_elem = NoElement
       \/ content_elem = NoElement
       \/ findtext(header_elem, "CREATION-TIME") \notin IsoTexts
       \/ \E e \in dts \cup evs \cup sos \cup sps \cup shs :
             get(e, "LAST-CHANGE") \notin IsoTexts \cup {None}
       \/ \E e \in evs : find(find(e, "PROPERTIES"), "EMBEDDED-VALUE") = NoElement

\* ReqIFParser(xml_file).parse(); a file that does not exist raises too.
ReqIFParserParse(root) ==
    IF root = NoElement \/ ParseRaises(root)
    THEN [ok |-> FALSE, reqif |-> NoReqIF]
    ELSE LET content_elem == find(find(root, "CORE-CONTENT"), "REQ-IF-CONTENT")
             tool_extensions == find(root, "TOOL-EXTENSIONS")
         IN [ok |-> TRUE,
             reqif |->
                [header |-> ParseHeader(find(find(root, "THE-HEADER"), "REQ-IF-HEADER")),
                 core_content |->
                    [reqif_content |->
                        [data_types |-> ParseDataTypes(find(content_elem, "DATATYPES")),
                         spec_objects |->
                            ParseSpecObjects(find(content_elem, "SPEC-OBJECTS")),
                         specifications |->
                            ParseSpecifications(find(content_elem, "SPECIFICATIONS"))]],
                 tool_extensions |->
                    IF tool_extensions # NoElement THEN tostring(tool_extensions) ELSE None]]

\* --------------------------------------------------- markup codec calls
\* A ReqIF source is stored as the file xml_file.
PutSource(x) ==
    /\ xml_file' = x
    /\ xml_last' = SqlCalled("put", TRUE, NoReqIF)
    /\ UNCHANGED <<xml_model, cmdVars, sqlVars, csvVars>>

\* reqif_model = ReqIFParser(xml_file).parse()
Parse ==
    /\ IF ReqIFParserParse(xml_file).ok
       THEN xml_model' = ReqIFParserParse(xml_file).reqif
       ELSE xml_model' = xml_model
    /\ xml_last' = SqlCalled("parse", ReqIFParserParse(xml_file).ok, NoReqIF)
    /\ UNCHANGED <<xml_file, cmdVars, sqlVars, csvVars>>

\* produced_xml = ReqIFWriter(reqif_model).write(), stored as xml_file.
WriterWrite ==
    /\ xml_model # NoReqIF
    /\ IF ReqIFWriterWrite(xml_model).ok
       THEN xml_file' = ReqIFWriterWrite(xml_model).xml
       ELSE xml_file' = xml_file
    /\ xml_last' = SqlCalled("write", ReqIFWriterWrite(xml_model).ok, xml_model)
    /\ UNCHANGED <<xml_model, cmdVars, sqlVars, csvVars>>

\* No file and no parsed document yet.
XmlInit ==
    /\ xml_file = NoElement
    /\ xml_model = NoReqIF
    /\ xml_last = SqlCalled("init", TRUE, NoReqIF)

\* ------------------------------------------------------------ behaviours
\* The hierarchy forests a document starts with: three nodes, flat, two
\* levels, three levels.
InitForests ==
    { [roots |-> <<"H1", "H2", "H3">>,
       children |-> [n \in NodeIds |-> <<>>]],
      [roots |-> <<"H1", "H3">>,
       children |-> [n \in NodeIds |-> IF n = "H1" THEN <<"H2">> ELSE <<>>]],
      [roots |-> <<"H1">>,
       children |-> [n \in NodeIds |->
                        IF n = "H1" THEN <<"H2">> ELSE IF n = "H2" THEN <<"H3">> ELSE <<>>]] }

\* A new CommandManager over a document holding requirement R1, the forest f
\* and no relation.
InitWith(f) ==
    /\ requirements = <<1>>
    /\ heap = [i \in Refs |->
                 IF i = 1 THEN [req_id |-> "R1", title |-> "t0", description |-> "d0"]
                 ELSE Free]
    /\ spec_hierarchies = f.roots
    /\ children = f.children
    /\ spec_relations = <<>>
    /\ undo_stack = <<>>
    /\ redo_stack = <<>>
    /\ nextCid = 1
    /\ last = Called("init", TRUE, None, NoCommand)
    /\ abandoned = {}
    /\ SqlInit
    /\ CsvInit
    /\ XmlInit

\* The forest of the tests: HIER-001 with the one child HIER-002.
TwoLevelForest ==
    [roots |-> <<"H1">>,
     children |-> [n \in NodeIds |-> IF n = "H1" THEN <<"H2">> ELSE <<>>]]

Init == InitWith(TwoLevelForest)

InitMove == \E f \in InitForests : InitWith(f)

NewRelations ==
    [relation_id : RelationIds, source_id : {"R2"}, target_id : {"R1"},
     relation_type : RelationTypes]

ExecuteAddRequirement ==
    \E req_id \in ReqIds, title \in Titles, description \in Descriptions :
        ExecuteCommand(AddRequirementCommand(Doc, req_id, title, description))

ExecuteRemoveRequirement ==
    \E req_id \in ReqIds : ExecuteCommand(RemoveRequirementCommand(Doc, req_id))

ExecuteUpdateRequirement ==
    \E req_id \in ReqIds, new_title \in Titles \cup {None},
       new_description \in Descriptions \cup {None} :
        ExecuteCommand(UpdateRequirementCommand(Doc, req_id, new_title, new_description))

ExecuteMoveNode ==
    \E node_id \in NodeIds \cup {AbsentNodeId},
       new_parent_id \in NodeIds \cup {AbsentNodeId, None} :
        ExecuteCommand(MoveNodeCommand(Doc, node_id, new_parent_id))

\* H3 is in no list of the two-level forest: it is the absent identifier there.
ExecuteMoveNodeSmall ==
    \E node_id \in NodeIds, new_parent_id \in NodeIds \cup {None} :
        ExecuteCommand(MoveNodeCommand(Doc, node_id, new_parent_id))

ExecuteAddNodeRelationship ==
    \E relation \in NewRelations : ExecuteCommand(AddNodeRelationshipCommand(Doc, relation))

ExecuteRemoveNodeRelationship ==
    \E relation_id \in RelationIds :
        ExecuteCommand(RemoveNodeRelationshipCommand(Doc, relation_id))

Next ==
    \/ nextCid <= MaxCmds /\ ExecuteAddRequirement
    \/ nextCid <= MaxCmds /\ ExecuteRemoveRequirement
    \/ nextCid <= MaxCmds /\ ExecuteUpdateRequirement
    \/ nextCid <= MaxCmds /\ ExecuteMoveNodeSmall
    \/ nextCid <= MaxCmds /\ ExecuteAddNodeRelationship
    \/ nextCid <= MaxCmds /\ ExecuteRemoveNodeRelationship
    \/ Undo
    \/ Redo

Spec == Init /\ [][Next]_vars

\* The behaviours that edit the hierarchy alone, with longer histories.
NextMove ==
    \/ nextCid <= MaxMoves /\ ExecuteMoveNode
    \/ Undo
    \/ Redo

SpecMove == InitMove /\ [][NextMove]_vars

\* The behaviours of a linear replay: calls of execute_command that all
\* succeed, then calls of undo() while there is a command to undo, then calls
\* of redo() while there is a command to redo.
NextReplay ==
    \/ /\ last.op \in {"init", "execute_command"} /\ nextCid <= MaxCmds
       /\ ExecuteAddRequirement /\ last'.ok
    \/ /\ last.op \in {"init", "execute_command"} /\ nextCid <= MaxCmds
       /\ ExecuteRemoveRequirement /\ last'.ok
    \/ /\ last.op \in {"init", "execute_command"} /\ nextCid <= MaxCmds
       /\ ExecuteUpdateRequirement /\ last'.ok
    \/ /\ last.op \in {"init", "execute_command"} /\ nextCid <= MaxCmds
       /\ ExecuteMoveNodeSmall /\ last'.ok
    \/ /\ last.op \in {"init", "execute_command"} /\ nextCid <= MaxCmds
       /\ ExecuteAddNodeRelationship /\ last'.ok
    \/ /\ last.op \in {"init", "execute_command"} /\ nextCid <= MaxCmds
       /\ ExecuteRemoveNodeRelationship /\ last'.ok
    \/ last.op \in {"execute_command", "undo"} /\ undo_stack # <<>> /\ Undo
    \/ last.op \in {"undo", "redo"} /\ redo_stack # <<>> /\ Redo

SpecReplay == Init /\ [][NextReplay]_vars

\* ------------------------------------------- documents handed to write()
Headers ==
    {[identifier |-> id, creation_time |-> "datetime(2024, 1, 1, 12, 0)",
      repository_id |-> "repo", reqif_tool_id |-> "tool", reqif_version |-> "1.0",
      source_tool_id |-> "src", title |-> "Title of " \o id] : id \in {"HDR1", "HDR2"}}

EnumValues ==
    <<[identifier |-> "EV1", last_change |-> None, long_name |-> "low",
       embedded_value |-> [key |-> "0", other_content |-> "green"]],
      [identifier |-> "EV2", last_change |-> "datetime(2025, 6, 30, 0, 0)",
       long_name |-> "high",
       embedded_value |-> [key |-> "1", other_content |-> "red"]]>>

AllDataTypes ==
    [k \in DataTypeKinds |->
        [identifier |-> "DT-" \o k,
         last_change |-> IF k = "xhtml" THEN "datetime(2024, 1, 1, 12, 0)" ELSE None,
         long_name |-> k,
         enum_values |-> IF k = "enumeration" THEN EnumValues ELSE <<>>]]

DataTypesChoices == {[k \in DataTypeKinds |-> NoDataType], AllDataTypes}

SpecObject1 ==
    [identifier |-> "SO1", last_change |-> "datetime(2024, 1, 1, 12, 0)",
     long_name |-> "Object 1", type_ref |-> "TYPE1",
     attributes |-> <<[definition_ref |-> "AD1", value |-> "v1"],
                      [definition_ref |-> "AD2", value |-> "v2"]>>]

SpecObject2 ==
    [identifier |-> "SO2", last_change |-> None,
     long_name |-> "Object 2", type_ref |-> "",
     attributes |-> <<>>]

SpecObjectsChoices == {<<>>, <<SpecObject2>>, <<SpecObject1, SpecObject2>>}

Specification1 ==
    [identifier |-> "SP1", last_change |-> None, long_name |-> "Spec 1",
     type_ref |-> "STYPE1",
     spec_hierarchies |->
        <<[identifier |-> "SH1", last_change |-> None, long_name |-> "Entry 1",
           is_editable |-> TRUE, object_ref |-> "SO1"],
          [identifier |-> "SH2", last_change |-> "datetime(2025, 6, 30, 0, 0)",
           long_name |-> "Entry 2", is_editable |-> FALSE, object_ref |-> "SO2"]>>]

SpecificationsChoices == {<<>>, <<Specification1>>}

ToolExtensionsChoices == {None, "", "<ext:data/>"}

ReqIFs ==
    {[header |-> h,
      core_content |->
          [reqif_content |-> [data_types |-> dt, spec_objects |-> so, specifications |-> sp]],
      tool_extensions |-> te] :
        h \in Headers, dt \in DataTypesChoices, so \in SpecObjectsChoices,
        sp \in SpecificationsChoices, te \in ToolExtensionsChoices}

Write == \E reqif \in ReqIFs : write(reqif)

\* The behaviours of the adapter over one database file.
NextSql ==
    \/ create_schema
    \/ writes < MaxWrites /\ Write
    \/ read

SpecSql == Init /\ [][NextSql]_vars

\* A document whose specification holds the hierarchy entry H1, and H1 holds
\* the entry H2 in its children list.
NestedReqIF ==
    [header |-> CHOOSE h \in Headers : h.identifier = "HDR1",
     core_content |->
        [reqif_content |->
            [data_types |-> [k \in DataTypeKinds |-> NoDataType],
             spec_objects |-> <<SpecObject1, SpecObject2>>,
             specifications |->
                <<[identifier |-> "SP1", last_change |-> None, long_name |-> "Spec 1",
                   type_ref |-> "STYPE1",
                   spec_hierarchies |->
                      <<[identifier |-> "H1", last_change |-> None,
                         long_name |-> "Entry 1", is_editable |-> TRUE,
                         object_ref |-> "SO1",
                         children |->
                            <<[identifier |-> "H2", last_change |-> None,
                               long_name |-> "Entry 2", is_editable |-> FALSE,
                               object_ref |-> "SO2", children |-> <<>>]>>]>>]>>]],
     tool_extensions |-> "<ext:data/>"]

CsvWriteAny == \E reqif \in ReqIFs \cup {NestedReqIF} : CsvWrite(reqif)

\* The behaviours of the CSV adapter over one folder.
NextCsv ==
    \/ csv_writes < MaxWrites /\ CsvWriteAny
    \/ CsvRead

SpecCsv == Init /\ [][NextCsv]_vars

\* One write into the empty database and one into the empty folder, with
\* the reads around them.
NextRoundTrip ==
    \/ create_schema
    \/ writes = 0 /\ db.schema /\ Write
    \/ read
    \/ csv_writes = 0 /\ CsvWriteAny
    \/ CsvRead

SpecRoundTrip == Init /\ [][NextRoundTrip]_vars

\* The element as a ReqIF file declares it: every tag of the writer's tree in
\* the ReqIF namespace, the attributes of the entity, LAST-CHANGE only when
\* it holds a timestamp.
RECURSIVE Qualified(_)
Qualified(e) ==
    Element(IF e.tag[1] = "" THEN <<ReqifNs, e.tag[2]>> ELSE e.tag,
            {a \in e.attrib :
                \/ a[1] \in {"IDENTIFIER", "LONG-NAME", "IS-EDITABLE", "KEY", "OTHER-CONTENT"}
                \/ a[1] = "LAST-CHANGE" /\ a[2] # ""},
            e.text,
            [i \in 1..Len(e.children) |-> Qualified(e.children[i])])

\* A ReqIF source holding the document: no TOOL-EXTENSIONS element when
\* tool_extensions is unset, an empty one for "", else one holding the text.
Source(reqif) ==
    LET root == Qualified(WriterRoot(reqif))
        te == reqif.tool_extensions
    IN [root EXCEPT !.children =
            SubSeq(root.children, 1, 2) \o
            IF te = None
            THEN <<>>
            ELSE <<Element(<<ReqifNs, "TOOL-EXTENSIONS">>, {},
                           IF te = "" THEN None ELSE te, <<>>)>>]

\* Sources that lack optional parts: one without DATATYPES, one without
\* SPEC-OBJECTS, one without SPECIFICATIONS, one with an empty REQ-IF-CONTENT,
\* and three whose first attribute value of SO1 has no payload: no THE-VALUE
\* element, a THE-VALUE without child, a THE-VALUE whose div has no text.
VariantSources ==
    LET x == Source(CHOOSE reqif \in ReqIFs :
                       /\ reqif.header.identifier = "HDR1"
                       /\ reqif.core_content.reqif_content.data_types = AllDataTypes
                       /\ Len(reqif.core_content.reqif_content.spec_objects) = 2
                       /\ reqif.core_content.reqif_content.specifications # <<>>
                       /\ reqif.tool_extensions = None)
        c == x.children[2].children[1].children
        attr == c[2].children[1].children[1].children[1]
        WithContent(kids) == [x EXCEPT !.children[2].children[1].children = kids]
        WithPayload(kids) ==
            [x EXCEPT !.children[2].children[1].children[2].children[1].children[1]
                          .children[1].children = kids]
    IN {WithContent(<<c[2], c[3]>>), WithContent(<<c[1], c[3]>>),
        WithContent(<<c[1], c[2]>>), WithContent(<<>>),
        WithPayload(<<attr.children[1]>>),
        WithPayload(<<attr.children[1], Element(<<ReqifNs, "THE-VALUE">>, {}, None, <<>>)>>),
        WithPayload(<<attr.children[1],
                      Element(<<ReqifNs, "THE-VALUE">>, {}, None,
                              <<Element(<<XhtmlNs, "div">>, {}, None, <<>>)>>)>>)}

Sources == {Source(reqif) : reqif \in ReqIFs} \cup VariantSources

\* The markup codec: sources are stored, parsed, and the parsed document is
\* written back.
NextMarkup ==
    \/ \E x \in Sources : PutSource(x)
    \/ Parse
    \/ WriterWrite

SpecMarkup == Init /\ [][NextMarkup]_vars

\* ================================================================ properties
\* The forest by content: the root list and the children lists of its nodes.
Forest(d) == [roots |-> View(d).spec_hierarchies, children |-> View(d).children]

\* How often node n is listed in the forest: in the root list and in the
\* children lists of the nodes of the forest.
Count(s, n) == Cardinality({i \in 1..Len(s) : s[i] = n})

RECURSIVE SumCount(_, _, _)
SumCount(ch, S, n) ==
    IF S = {} THEN 0
    ELSE LET p == CHOOSE q \in S : TRUE
         IN Count(ch[p], n) + SumCount(ch, S \ {p}, n)

Places(d, n) == Count(d.spec_hierarchies, n) + SumCount(d.children, InForest(d), n)

\* The nodes below n: its children, their children, and so on.
Descendants(ch, n) == Reach(ch, Range(ch[n]))

\* The call the history records was a CommandManager call of this kind.
Did(op) == last.op = op

\* ---------------------------------------------------------------------- C1
\* C1: a successful execute_command leaves its command on top of the undo
\* stack and the redo stack empty; a command dropped from the redo stack that
\* way is on neither stack afterwards, so no later redo() re-applies it.
C1_ExecuteClearsRedo ==
    /\ (Did("execute_command") /\ last.ok) =>
          /\ undo_stack # <<>>
          /\ Last(undo_stack).cid = last.cmd.cid
          /\ redo_stack = <<>>
    /\ abandoned \cap (Cids(undo_stack) \cup Cids(redo_stack)) = {}
    /\ (Did("redo") /\ last.ok) => last.cmd.cid \notin abandoned

\* execute, undo, execute(new), undo, redo: the redo re-applied the new command.
C1_Witness ==
    /\ abandoned # {}
    /\ Did("redo") /\ last.ok
    /\ Len(undo_stack) = 1

\* ---------------------------------------------------------------------- C2
\* A document view without the order of its lists: the requirements, who is
\* a root and who is whose child, and how often each relation is listed.
Content(v) ==
    [requirements |-> Range(v.requirements),
     roots |-> Range(v.spec_hierarchies),
     childOf |-> {<<n, p>> \in NodeIds \X NodeIds : n \in Range(v.children[p])},
     spec_relations |-> {<<r, Count(v.spec_relations, r)>> : r \in Range(v.spec_relations)}]

\* C2: whenever undo() succeeds and redo() follows at once and succeeds, the
\* document holds what it held right after the first execute() of the command
\* that was undone and redone (list order apart).
C2_UndoRedoRestores ==
    [][(last.op = "undo" /\ last.ok /\ last'.op = "redo" /\ last'.ok)
          => Content(View(Doc))' = Content(Last(undo_stack').post)]_cmdVars

\* ---------------------------------------------------------------------- C3
\* C3: a MoveNodeCommand handed to execute_command whose new_parent_id names
\* no node of the forest fails and leaves the forest as it was.
C3_MoveToAbsentParentKeepsForest ==
    [][(last'.op = "execute_command" /\ last'.cmd.kind = "MoveNode"
           /\ last'.cmd.cid = nextCid
           /\ last'.cmd.new_parent_id \notin InForest(Doc) \cup {None})
          => (~last'.ok /\ Forest(Doc)' = Forest(Doc))]_cmdVars

\* ---------------------------------------------------------------------- C4
\* C4: every node is listed in exactly one place of the forest (the
\* behaviours of SpecMove start with all of NodeIds in the forest).
C4_ExactlyOnePlace == \A n \in NodeIds : Places(Doc, n) = 1

\* ---------------------------------------------------------------------- C5
\* C5: no node is among its own descendants.
C5_Acyclic == \A n \in NodeIds : n \notin Descendants(children, n)

\* ---------------------------------------------------------------------- C6
\* The list that owns the nodes under `owner` (None: the root list).
OwnerList(roots, ch, owner) == IF owner = None THEN roots ELSE ch[owner]

\* The parents of node n, over every node object: who lists it as a child.
ParentsOf(ch, n) == {p \in NodeIds : n \in Range(ch[p])}

\* C6: when undo() undoes a MoveNodeCommand, the moved node is afterwards the
\* last element of its recorded previous owner's list, it is no longer in the
\* new owner's list (unless that is the previous owner's list), and every
\* other node has the parents and the root membership it had before.
C6_MoveUndoRestoresOwner ==
    [][(last'.op = "undo" /\ last'.ok /\ last'.cmd.kind = "MoveNode") =>
          LET c == last'.cmd
          IN /\ OwnerList(spec_hierarchies', children', c.old_parent) # <<>>
             /\ Last(OwnerList(spec_hierarchies', children', c.old_parent)) = c.node
             /\ Count(OwnerList(spec_hierarchies', children', c.old_parent), c.node) = 1
             /\ c.new_parent_id # c.old_parent =>
                   c.node \notin Range(OwnerList(spec_hierarchies', children', c.new_parent_id))
             /\ \A m \in NodeIds \ {c.node} :
                   /\ ParentsOf(children', m) = ParentsOf(children, m)
                   /\ (m \in Range(spec_hierarchies')) = (m \in Range(spec_hierarchies))
      ]_cmdVars

\* ---------------------------------------------------------------------- C7
\* The command objects on a stack, bottom to top.
CidsOf(stack) == [i \in 1..Len(stack) |-> stack[i].cid]

\* C7: undo() on a non-empty undo stack moves exactly the top command to the
\* top of the redo stack, redo() on a non-empty redo stack moves exactly the
\* top command to the top of the undo stack; the other entries stay in order.
C7_StackDiscipline ==
    [][/\ (last'.op = "undo" /\ undo_stack # <<>>) =>
             /\ CidsOf(undo_stack') = Front(CidsOf(undo_stack))
             /\ CidsOf(redo_stack') = Append(CidsOf(redo_stack), Last(undo_stack).cid)
       /\ (last'.op = "redo" /\ redo_stack # <<>>) =>
             /\ CidsOf(redo_stack') = Front(CidsOf(redo_stack))
             /\ CidsOf(undo_stack') = Append(CidsOf(undo_stack), Last(redo_stack).cid)
      ]_cmdVars

\* ---------------------------------------------------------------------- C8
\* C8: undo() with an empty undo stack and redo() with an empty redo stack
\* fail with their error and change neither stack nor the document.
C8_EmptyHistoryFails ==
    [][/\ (last'.op = "undo" /\ undo_stack = <<>>) =>
             /\ ~last'.ok /\ last'.error = "No commands to undo."
             /\ UNCHANGED <<requirements, heap, spec_hierarchies, children,
                            spec_relations, undo_stack, redo_stack>>
       /\ (last'.op = "redo" /\ redo_stack = <<>>) =>
             /\ ~last'.ok /\ last'.error = "No commands to redo."
             /\ UNCHANGED <<requirements, heap, spec_hierarchies, children,
                            spec_relations, undo_stack, redo_stack>>
      ]_cmdVars

\* undo() failed on an empty undo stack while the redo stack held a command.
C8_Witness ==
    /\ Did("undo") /\ last.error = "No commands to undo."
    /\ undo_stack = <<>> /\ redo_stack # <<>>

\* ---------------------------------------------------------------------- C9
\* The identifier the command works on is absent from the document.
TargetAbsent(c, d) ==
    CASE c.kind \in {"RemoveRequirement", "UpdateRequirement"} -> ~HasRequirement(d, c.req_id)
      [] c.kind = "RemoveNodeRelationship" ->
            \A i \in 1..Len(d.spec_relations) : d.spec_relations[i].relation_id # c.relation_id
      [] c.kind = "MoveNode" -> c.node_id \notin InForest(d)
      [] OTHER -> FALSE

\* C9: execute_command with a new Remove/Update requirement, remove
\* relationship or move command whose target identifier is absent fails,
\* leaves the document as it was and pushes nothing.
C9_AbsentTargetChangesNothing ==
    [][(last'.op = "execute_command" /\ last'.cmd.cid = nextCid
           /\ TargetAbsent(last'.cmd, Doc))
          => /\ ~last'.ok
             /\ UNCHANGED <<requirements, heap, spec_hierarchies, children,
                            spec_relations, undo_stack, redo_stack>>]_cmdVars

\* Such a call failed, after an earlier command had changed the document.
C9_Witness ==
    /\ Did("execute_command") /\ ~last.ok
    /\ TargetAbsent(last.cmd, Doc)
    /\ undo_stack # <<>>

\* --------------------------------------------------------------------- C10
\* The attribute lists read() returns, by spec object identifier.
AttributesRead(t) ==
    {<<ReadSpecObjects(t)[i].identifier, ReadSpecObjects(t)[i].attributes>> :
        i \in 1..Len(t.spec_object)}

\* C10: write(d) called again right after a successful write(d) with the same
\* Document leaves every table with the rows it had after the first call,
\* and when the first call was the first write into the database, read()
\* then returns every spec object of d with the attribute list it has in d.
C10_WriteIdempotent ==
    [][(sql_last.op = "write" /\ sql_last.ok
           /\ sql_last'.op = "write" /\ sql_last'.reqif = sql_last.reqif)
          => /\ db' = db
             /\ writes = 1 =>
                   LET objs == sql_last.reqif.core_content.reqif_content.spec_objects
                   IN AttributesRead(db') =
                         {<<objs[i].identifier, objs[i].attributes>> : i \in 1..Len(objs)}
      ]_vars

\* --------------------------------------------------------------------- C11
\* Two documents with the same content; an unset and an empty
\* tool_extensions count as the same here.
SameContent(a, b) ==
    /\ a.header = b.header
    /\ a.core_content = b.core_content
    /\ \/ a.tool_extensions = b.tool_extensions
       \/ {a.tool_extensions, b.tool_extensions} \subseteq {None, ""}

\* C11: CSVAdapter.read() after a second or later write into the folder
\* succeeds and returns a document with the content of the one last written;
\* a data type the last written document lacks is unset.
C11_CsvLatestWriteWins ==
    [][(csv_last.op = "write" /\ csv_writes >= 2 /\ csv_last'.op = "read")
          => /\ csv_last'.ok
             /\ SameContent(csv_loaded', csv_last.reqif)]_vars

\* --------------------------------------------------------------------- C12
\* C12: SQLiteAdapter.read() after a second or later successful write into
\* the database succeeds and returns a document with the content of the one
\* last written: its header, and nothing that only an earlier document held.
C12_SqlLatestWriteWins ==
    [][(sql_last.op = "write" /\ sql_last.ok /\ writes >= 2 /\ sql_last'.op = "read")
          => /\ sql_last'.ok
             /\ SameContent(loaded', sql_last.reqif)]_vars

\* --------------------------------------------------------------------- C13
\* What a round trip keeps: the header fields, the spec objects in order with
\* their identifiers and ordered attribute values, the specifications in
\* order with their identifiers and ordered hierarchy entries (identifier,
\* is_editable, object_ref).
Kept(reqif) ==
    LET content == reqif.core_content.reqif_content
    IN [header |-> reqif.header,
        spec_objects |->
            [i \in 1..Len(content.spec_objects) |->
                <<content.spec_objects[i].identifier, content.spec_objects[i].attributes>>],
        specifications |->
            [i \in 1..Len(content.specifications) |->
                LET hs == content.specifications[i].spec_hierarchies
                IN <<content.specifications[i].identifier,
                     [j \in 1..Len(hs) |->
                         <<hs[j].identifier, hs[j].is_editable, hs[j].object_ref>>]>>]]

\* C13: read() right after the first write into an empty folder, and read()
\* right after the first write into an empty database with its schema,
\* succeed and return the written document in all that Kept names.
C13_RoundTripOnEmptyTarget ==
    [][/\ (csv_last.op = "write" /\ csv_writes = 1 /\ csv_last'.op = "read")
             => /\ csv_last'.ok
                /\ Kept(csv_loaded') = Kept(csv_last.reqif)
       /\ (sql_last.op = "write" /\ sql_last.ok /\ writes = 1 /\ sql_last'.op = "read")
             => /\ sql_last'.ok
                /\ Kept(loaded') = Kept(sql_last.reqif)]_vars

\* Both adapters have read back a document with two spec objects, attribute
\* values and a specification with hierarchy entries.
C13_Witness ==
    /\ sql_last.op = "read" /\ sql_last.ok
    /\ csv_last.op = "read" /\ csv_last.ok
    /\ \A r \in {loaded, csv_loaded} :
          /\ Len(r.core_content.reqif_content.spec_objects) = 2
          /\ r.core_content.reqif_content.spec_objects[1].attributes # <<>>
          /\ r.core_content.reqif_content.specifications # <<>>
          /\ r.core_content.reqif_content.specifications[1].spec_hierarchies # <<>>

\* --------------------------------------------------------------------- C14
\* C14: tool_extensions comes back as written: read() right after the first
\* CSVAdapter.write into an empty folder, read() right after the first
\* SQLiteAdapter.write into an empty database, and parse() right after
\* ReqIFWriter.write succeed and return the tool_extensions of the written
\* document (unset, "" or a fragment).
C14_ToolExtensionsRoundTrip ==
    [][/\ (csv_last.op = "write" /\ csv_writes = 1 /\ csv_last'.op = "read")
             => /\ csv_last'.ok
                /\ csv_loaded'.tool_extensions = csv_last.reqif.tool_extensions
       /\ (sql_last.op = "write" /\ sql_last.ok /\ writes = 1 /\ sql_last'.op = "read")
             => /\ sql_last'.ok
                /\ loaded'.tool_extensions = sql_last.reqif.tool_extensions
       /\ (xml_last.op = "write" /\ xml_last'.op = "parse")
             => /\ xml_last.ok
                /\ xml_last'.ok
                /\ xml_model'.tool_extensions = xml_last.reqif.tool_extensions]_vars

\* --------------------------------------------------------------------- C15
\* C15: after parse() of a source succeeded, ReqIFWriter.write of the parsed
\* document succeeds, and parsing what it wrote succeeds and gives a document
\* with the same header and the same core content (data types, spec objects
\* with their attribute values, specifications with their hierarchy entries).
C15_MarkupRoundTrip ==
    [][(xml_last.op = "parse" /\ xml_last.ok /\ xml_last'.op = "write")
          => /\ xml_last'.ok
             /\ ReqIFParserParse(xml_file').ok
             /\ ReqIFParserParse(xml_file').reqif.header = xml_model.header
             /\ ReqIFParserParse(xml_file').reqif.core_content = xml_model.core_content]_vars

\* --------------------------------------------------------------------- C16
\* The children list of a hierarchy entry; an entry read back from the CSV
\* files is a model.SpecHierarchy, which has no such field.
ChildrenOf(hier) == IF "children" \in DOMAIN hier THEN hier.children ELSE <<>>

\* C16: read() right after NestedReqIF was written into an empty folder
\* returns the specification with the single root entry H1, and H1 with
\* exactly one child, H2.
C16_TabularKeepsNesting ==
    [][(/\ csv_last.op = "write" /\ csv_writes = 1 /\ csv_last.reqif = NestedReqIF
        /\ csv_last'.op = "read")
          => /\ csv_last'.ok
             /\ LET hs == csv_loaded'.core_content.reqif_content.specifications[1].spec_hierarchies
                IN /\ [i \in 1..Len(hs) |-> hs[i].identifier] = <<"H1">>
                   /\ [j \in 1..Len(ChildrenOf(hs[1])) |-> ChildrenOf(hs[1])[j].identifier]
                         = <<"H2">>]_vars

\* --------------------------------------------------------------------- C17
\* C17: in every state reached by execute_command, undo and redo of relation
\* commands, no two relations of spec_relations have the same relation_id
\* (so an AddNodeRelationshipCommand for an identifier already present must
\* have failed).
C17_RelationIdsUnique ==
    \A i, j \in 1..Len(spec_relations) :
        i # j => spec_relations[i].relation_id # spec_relations[j].relation_id

\* --------------------------------------------------------------------- C18
\* How many relations of the list have the identifier.
IdCount(relations, relation_id) ==
    Cardinality({i \in 1..Len(relations) : relations[i].relation_id = relation_id})

\* C18: in every state of spec_relations, a new AddNodeRelationshipCommand
\* executed and then undone, and a new RemoveNodeRelationshipCommand executed
\* (successfully) and then undone, leave every relation_id with as many
\* entries in spec_relations as it had before execute.
C18_RelationCommandsInverse ==
    /\ \A relation \in NewRelations :
          LET e == AddNodeRelationshipExecute(AddNodeRelationshipCommand(Doc, relation).cmd, Doc)
              u == AddNodeRelationshipUndo(e.cmd, e.doc)
          IN \A id \in RelationIds :
                IdCount(u.doc.spec_relations, id) = IdCount(spec_relations, id)
    /\ \A relation_id \in RelationIds :
          LET e == RemoveNodeRelationshipExecute(
                       RemoveNodeRelationshipCommand(Doc, relation_id).cmd, Doc)
              u == RemoveNodeRelationshipUndo(e.cmd, e.doc)
          IN e.ok => \A id \in RelationIds :
                        IdCount(u.doc.spec_relations, id) = IdCount(spec_relations, id)

\* --------------------------------------------------------------------- C19
\* The Requirement the document holds under the identifier.
RequirementOf(d, req_id) == d.heap[get_requirement(d, req_id)]

\* C19: (1) after undo() of an AddRequirementCommand the document holds no
\* requirement with the command's req_id; (2) a successful execute of a
\* RemoveRequirementCommand, first or by redo, removes the requirement and
\* leaves the command with a snapshot of the requirement's req_id, title and
\* description as they were; (3) as long as the command stays on the undo
\* stack no call changes its snapshot; (4) its undo() puts a requirement
\* with the snapshot's req_id, title and description back in the document.
C19_AddRemoveUndone ==
    [][/\ (last'.op = "undo" /\ undo_stack # <<>>
             /\ Last(undo_stack).kind = "AddRequirement")
            => ~HasRequirement(Doc', heap[Last(undo_stack).requirement].req_id)
       /\ (last'.op \in {"execute_command", "redo"} /\ last'.ok
             /\ last'.cmd.kind = "RemoveRequirement")
            => /\ ~HasRequirement(Doc', last'.cmd.req_id)
               /\ HasRequirement(Doc, last'.cmd.req_id)
               /\ heap'[last'.cmd.removed_requirement] = RequirementOf(Doc, last'.cmd.req_id)
       /\ \A i \in 1..Len(undo_stack), j \in 1..Len(undo_stack') :
             (/\ undo_stack[i].kind = "RemoveRequirement"
              /\ undo_stack'[j].cid = undo_stack[i].cid)
                => heap'[undo_stack'[j].removed_requirement]
                      = heap[undo_stack[i].removed_requirement]
       /\ (last'.op = "undo" /\ last'.ok /\ last'.cmd.kind = "RemoveRequirement")
            => /\ HasRequirement(Doc', last'.cmd.req_id)
               /\ RequirementOf(Doc', last'.cmd.req_id)
                     = heap[Last(undo_stack).removed_requirement]]_vars

\* Requirement R1 was updated, then removed, and the removal was undone: R1
\* is back with the title or description of the update.
C19_Witness ==
    /\ last.op = "undo" /\ last.ok /\ last.cmd.kind = "RemoveRequirement"
    /\ undo_stack # <<>> /\ Last(undo_stack).kind = "UpdateRequirement"
    /\ HasRequirement(Doc, "R1")
    /\ RequirementOf(Doc, "R1") # [req_id |-> "R1", title |-> "t0", description |-> "d0"]

\* --------------------------------------------------------------------- C20
\* C20: (1) a successful execute of an UpdateRequirementCommand, first or by
\* redo, sets the title and the description of the requirement with req_id
\* to new_title and new_description where these are given and leaves the
\* field as it was where None is given, and every other requirement and the
\* list order are as before; (2) the command then holds a snapshot of the
\* requirement as it was immediately before; (3) no call changes the
\* snapshot while the command stays on the undo stack; (4) its undo() leaves
\* the requirement with req_id with the snapshot's title and description.
C20_UpdateChangesGivenFields ==
    [][/\ (last'.op \in {"execute_command", "redo"} /\ last'.ok
             /\ last'.cmd.kind = "UpdateRequirement")
            => LET c == last'.cmd
                   before == View(Doc).requirements
                   after == View(Doc').requirements
               IN /\ HasRequirement(Doc, c.req_id)
                  /\ Len(after) = Len(before)
                  /\ \A i \in 1..Len(before) :
                        IF before[i].req_id = c.req_id
                        THEN after[i] =
                               [req_id |-> c.req_id,
                                title |-> IF c.new_title # None
                                          THEN c.new_title ELSE before[i].title,
                                description |-> IF c.new_description # None
                                                THEN c.new_description
                                                ELSE before[i].description]
                        ELSE after[i] = before[i]
                  /\ heap'[c.old_requirement] = RequirementOf(Doc, c.req_id)
       /\ \A i \in 1..Len(undo_stack), j \in 1..Len(undo_stack') :
             (/\ undo_stack[i].kind = "UpdateRequirement"
              /\ undo_stack'[j].cid = undo_stack[i].cid)
                => heap'[undo_stack'[j].old_requirement] = heap[undo_stack[i].old_requirement]
       /\ (last'.op = "undo" /\ last'.ok /\ last'.cmd.kind = "UpdateRequirement")
            => /\ HasRequirement(Doc', last'.cmd.req_id)
               /\ RequirementOf(Doc', last'.cmd.req_id).title
                     = heap[Last(undo_stack).old_requirement].title
               /\ RequirementOf(Doc', last'.cmd.req_id).description
                     = heap[Last(undo_stack).old_requirement].description
               /\ \A r \in Range(View(Doc).requirements) :
                     r.req_id # last'.cmd.req_id => r \in Range(View(Doc').requirements)]_vars

\* An update of R1 that gave a new title and a new description was undone,
\* with a second requirement in the document: R1 has its first values again.
C20_Witness ==
    /\ last.op = "undo" /\ last.ok /\ last.cmd.kind = "UpdateRequirement"
    /\ last.cmd.req_id = "R1"
    /\ last.cmd.new_title = "t1" /\ last.cmd.new_description = "d1"
    /\ RequirementOf(Doc, "R1") = [req_id |-> "R1", title |-> "t0", description |-> "d0"]
    /\ HasRequirement(Doc, "R2")

\* --------------------------------------------------------------------- C21
\* The SPEC-OBJECT elements of a source.
SpecObjectElems(root) ==
    findall(find(find(find(root, "CORE-CONTENT"), "REQ-IF-CONTENT"), "SPEC-OBJECTS"),
            "SPEC-OBJECT")

\* C21: parse() of a source succeeds, and an attribute whose THE-VALUE is
\* missing, has no child element, or has a first child without text is read
\* with the value "".
C21_EmptyPayloadIsEmptyString ==
    [][(xml_last'.op = "parse" /\ xml_file # NoElement)
          => /\ xml_last'.ok
             /\ \A i \in 1..Len(SpecObjectElems(xml_file)) :
                   LET attrs == find(SpecObjectElems(xml_file)[i], "VALUES").children
                       parsed == xml_model'.core_content.reqif_content.spec_objects[i].attributes
                   IN \A j \in 1..Len(attrs) :
                         LET v == find(attrs[j], "THE-VALUE")
                         IN (\/ v = NoElement
                             \/ v.children = <<>>
                             \/ v.children[1].text = None)
                               => parsed[j].value = ""]_vars

\* --------------------------------------------------------------------- C22
\* The REQ-IF-CONTENT element of a source.
ContentElem(root) == find(find(root, "CORE-CONTENT"), "REQ-IF-CONTENT")

\* C22: parse() of a source succeeds; without DATATYPES every data type is
\* unset, without SPEC-OBJECTS or SPECIFICATIONS the list is empty, without
\* TOOL-EXTENSIONS tool_extensions is unset, and a data type, enum value,
\* spec object, specification or hierarchy entry without LAST-CHANGE has
\* last_change unset.
C22_MissingOptionalIsUnset ==
    [][(xml_last'.op = "parse" /\ xml_file # NoElement)
          => LET content == xml_model'.core_content.reqif_content
                 dts == find(ContentElem(xml_file), "DATATYPES").children
                 sos == SpecObjectElems(xml_file)
                 sps == findall(find(ContentElem(xml_file), "SPECIFICATIONS"), "SPECIFICATION")
                 hs(i) == findall(find(sps[i], "CHILDREN"), "SPEC-HIERARCHY")
                 unset(e) == get(e, "LAST-CHANGE") = None
             IN /\ xml_last'.ok
                /\ find(ContentElem(xml_file), "DATATYPES") = NoElement
                      => content.data_types = [k \in DataTypeKinds |-> NoDataType]
                /\ find(ContentElem(xml_file), "SPEC-OBJECTS") = NoElement
                      => content.spec_objects = <<>>
                /\ find(ContentElem(xml_file), "SPECIFICATIONS") = NoElement
                      => content.specifications = <<>>
                /\ find(xml_file, "TOOL-EXTENSIONS") = NoElement
                      => xml_model'.tool_extensions = None
                /\ \A i \in 1..Len(dts) :
                      /\ (strip_ns(dts[i].tag) = "DATATYPE-DEFINITION-XHTML" /\ unset(dts[i]))
                            => content.data_types.xhtml.last_change = None
                      /\ (strip_ns(dts[i].tag) = "DATATYPE-DEFINITION-ENUMERATION"
                            /\ unset(dts[i]))
                            => content.data_types.enumeration.last_change = None
                      /\ strip_ns(dts[i].tag) = "DATATYPE-DEFINITION-ENUMERATION"
                            => LET evs == findall(find(dts[i], "SPECIFIED-VALUES"), "ENUM-VALUE")
                               IN \A j \in 1..Len(evs) :
                                     unset(evs[j]) =>
                                        content.data_types.enumeration.enum_values[j].last_change
                                           = None
                /\ \A i \in 1..Len(sos) :
                      unset(sos[i]) => content.spec_objects[i].last_change = None
                /\ \A i \in 1..Len(sps) :
                      /\ unset(sps[i]) => content.specifications[i].last_change = None
                      /\ \A j \in 1..Len(hs(i)) :
                            unset(hs(i)[j]) =>
                               content.specifications[i].spec_hierarchies[j].last_change = None
            ]_vars

\* A source without SPECIFICATIONS and without TOOL-EXTENSIONS, whose first
\* spec object has LAST-CHANGE and whose second has none, was parsed.
C22_Witness ==
    /\ xml_last.op = "parse" /\ xml_last.ok
    /\ find(ContentElem(xml_file), "SPECIFICATIONS") = NoElement
    /\ find(xml_file, "TOOL-EXTENSIONS") = NoElement
    /\ Len(SpecObjectElems(xml_file)) = 2
    /\ get(SpecObjectElems(xml_file)[1], "LAST-CHANGE") # None
    /\ get(SpecObjectElems(xml_file)[2], "LAST-CHANGE") = None
    /\ xml_model.core_content.reqif_content.specifications = <<>>
    /\ xml_model.core_content.reqif_content.spec_objects[2].last_change = None
    /\ xml_model.tool_extensions = None

\* --------------------------------------------------------------------- C29
\* The entities of a document that carry last_change, each as
\* <<identifier, last_change>>.
LastChanges(reqif) ==
    LET content == reqif.core_content.reqif_content
        dts == {content.data_types[k] : k \in DatedKinds} \ {NoDataType}
        sps == Range(content.specifications)
    IN {<<x.identifier, x.last_change>> :
           x \in dts \cup UNION {Range(dt.enum_values) : dt \in dts}
                    \cup UNION {Range(sp.spec_hierarchies) : sp \in sps}}
       \cup {<<x.identifier, x.last_change>> : x \in Range(content.spec_objects)}
       \cup {<<x.identifier, x.last_change>> : x \in sps}

\* C29: ReqIFWriter.write of a document succeeds, parsing what it wrote
\* succeeds, and every entity whose last_change was unset is read back with
\* last_change unset.
C29_UnsetTimestampSurvives ==
    [][(xml_last'.op = "write" /\ \E p \in LastChanges(xml_model) : p[2] = None)
          => /\ xml_last'.ok
             /\ ReqIFParserParse(xml_file').ok
             /\ \A p \in LastChanges(xml_model) :
                   p[2] = None => p \in LastChanges(ReqIFParserParse(xml_file').reqif)]_vars

\* --------------------------------------------------------------------- C23
\* The effect of a move of `node` from owner `old` to owner `new` on the
\* lists: the new owner's list is what it held without the node, then the
\* node; taking the node out of view, every list holds what it held, in the
\* same order (so the node's own children list, and the owner and sibling
\* order of every other node, are as before).
MoveEffect(node, old, new) ==
    /\ OwnerList(spec_hierarchies', children', new)
          = Append(Without(OwnerList(spec_hierarchies, children, new), node), node)
    /\ \A owner \in NodeIds \cup {None} :
          Without(OwnerList(spec_hierarchies', children', owner), node)
             = Without(OwnerList(spec_hierarchies, children, owner), node)
    /\ children'[node] = children[node]

\* C23: after a successful execute of a MoveNodeCommand, first or by redo,
\* the node is not in its previous owner's list (unless that is the new
\* owner's list as well), it is the last element of the new owner's list, its
\* own children list is unchanged, and every other node keeps its owner and
\* its order among its siblings.
C23_MoveEffectAndFrame ==
    [][(last'.op \in {"execute_command", "redo"} /\ last'.ok /\ last'.cmd.kind = "MoveNode")
          => /\ last'.cmd.old_parent # last'.cmd.new_parent_id
                   => last'.cmd.node
                        \notin Range(OwnerList(spec_hierarchies', children', last'.cmd.old_parent))
             /\ MoveEffect(last'.cmd.node, last'.cmd.old_parent, last'.cmd.new_parent_id)
      ]_cmdVars

\* --------------------------------------------------------------------- C24
\* C24: while the undo stack holds c1..ck, every requirement of the document
\* has the req_id, title and description a requirement of the document had
\* right after the first execute of ck.
C24_HistoryConsistent ==
    undo_stack # <<>>
       => Range(View(Doc).requirements) \subseteq Range(Last(undo_stack).post.requirements)

\* --------------------------------------------------------------------- C25
\* C25: the execute of a MoveNodeCommand, first or by redo, whose
\* new_parent_id is the moved node of the forest or one of its descendants
\* fails and leaves the forest as it was.
C25_MoveUnderItselfKeepsForest ==
    [][(/\ last'.op \in {"execute_command", "redo"} /\ last'.cmd.kind = "MoveNode"
        /\ last'.cmd.node_id \in InForest(Doc)
        /\ last'.cmd.new_parent_id
              \in {last'.cmd.node_id} \cup Descendants(children, last'.cmd.node_id))
          => (~last'.ok /\ Forest(Doc)' = Forest(Doc))]_cmdVars

\* --------------------------------------------------------------------- C27
\* C27: when the command's undo() raises inside undo(), or its execute()
\* raises inside redo(), both stacks hold the command objects they held
\* before the call, in the same order.
C27_FailureKeepsHistory ==
    [][(last'.op \in {"undo", "redo"} /\ ~last'.ok /\ last'.error = "command")
          => /\ CidsOf(undo_stack') = CidsOf(undo_stack)
             /\ CidsOf(redo_stack') = CidsOf(redo_stack)]_cmdVars

\* --------------------------------------------------------------------- C28
\* C28: in every state, execute() of a RemoveNodeRelationshipCommand fails
\* when spec_relations holds no relation with its relation_id: for a newly
\* constructed command, and for a command object of either stack, which has
\* executed before.
C28_RemoveAbsentRelationRaises ==
    /\ \A relation_id \in RelationIds :
          IdCount(spec_relations, relation_id) = 0
             => ~RemoveNodeRelationshipExecute(
                    RemoveNodeRelationshipCommand(Doc, relation_id).cmd, Doc).ok
    /\ \A c \in Range(undo_stack) \cup Range(redo_stack) :
          (c.kind = "RemoveNodeRelationship" /\ IdCount(spec_relations, c.relation_id) = 0)
             => ~RemoveNodeRelationshipExecute(c, Doc).ok

\* --------------------------------------------------------------------- C30
\* C30: no command object is on both stacks; a successful undo() or redo()
\* leaves len(undo stack) + len(redo stack) as it was; a successful
\* execute_command sets it to the former length of the undo stack plus one.
C30_StackConservation ==
    [][/\ Cids(undo_stack') \cap Cids(redo_stack') = {}
       /\ (last'.op \in {"undo", "redo"} /\ last'.ok)
             => Len(undo_stack') + Len(redo_stack') = Len(undo_stack) + Len(redo_stack)
       /\ (last'.op = "execute_command" /\ last'.ok)
             => Len(undo_stack') + Len(redo_stack') = Len(undo_stack) + 1]_cmdVars

\* A successful redo() left commands on both stacks.
C30_Witness ==
    /\ Did("redo") /\ last.ok
    /\ undo_stack # <<>> /\ redo_stack # <<>>

\* --------------------------------------------------------------------- C26
\* C26: in a linear replay every undo() and redo() succeeds; a redo()
\* re-executes the command that was executed next after those of the undo
\* stack; when the redo stack is empty again the undo stack holds the
\* commands in the order of their first execution and the document holds
\* what it held before the first undo(), right after the first execute of
\* the last command (list order apart).
C26_LinearReplay ==
    [][/\ last'.op \in {"undo", "redo"} => last'.ok
       /\ last'.op = "redo" =>
             /\ last'.cmd.cid = Len(undo_stack) + 1
             /\ CidsOf(undo_stack') = [i \in 1..Len(undo_stack) + 1 |-> i]
       /\ (last'.op = "redo" /\ redo_stack' = <<>>) =>
             /\ Len(undo_stack') = nextCid - 1
             /\ Content(View(Doc))' = Content(Last(undo_stack').post)]_cmdVars

====
